---- MODULE Spec2Model ----
(***************************************************************************)
(* Verification model of ab_sdk (artificial_brains_sdk_py).                *)
(*                                                                         *)
(* Part 1: ab_sdk/plugins/decoder.py, the stream decoder (below).          *)
(* Part 2: ab_sdk/utils/feedback.py, the feedback raster.                  *)
(* Part 3: ab_sdk/utils/astro.py, the neuromodulation update.              *)
(* Part 4: ab_sdk/run_session.py, the dispatch of socket events and the    *)
(*         feedback chunk.                                                 *)
(* Part 5: ab_sdk/client.py, the start of a run.                           *)
(* Part 6: ab_sdk/input_streamer.py, the answers to io:need.               *)
(* Part 7: ab_sdk/contract_scaffold.py, the policies directory.            *)
(* Part 8: ab_sdk/robot_loop.py, the cycle handler and the state worker.   *)
(* Every part has its own specifications over the one set of variables;    *)
(* the variables of the other parts stay as they are.                      *)
(*                                                                         *)
(* Numbers.  Deltas, per_step_max, deadzone, min_step and clamp limits are *)
(* integers counted in one common unit (0.01 of the caller's unit), gains  *)
(* are integers, so value * per_step_max * gain is exact.                  *)
(*                                                                         *)
(* Python values.  A loosely typed value (a row's "t", an element of       *)
(* "bits") is a record [k, n, s]: k is its Python type, n its number (an   *)
(* int, or a float counted in tenths), s its characters when it is a str.  *)
(* An Optional is a sequence of length 0 (None / key absent) or 1.         *)
(* A str that the code strip()s is a sequence of characters / chunks,      *)
(* where " " is a whitespace character.                                    *)
(***************************************************************************)
EXTENDS Integers, Sequences, FiniteSets, TLC

VARIABLES
    rows,       \* decode_stream_rows: the caller's rows argument
    mapping,    \* decode_stream_rows / normalize_mapping: the caller's mapping argument
    out_cmds,   \* the list returned by the last decode_stream_rows call
    by_t,       \* the value of the local by_t when the last call returned
    mp,         \* the list returned by the last normalize_mapping call
    pc,         \* position of the caller
    seen,       \* an earlier completed call: <<>> or <<[rows, mapping, out]>>
    stream,     \* the telemetry buffer the caller cuts row windows from
    bits,       \* _compute_value: the bits argument
    entry,      \* _compute_value / _value_to_delta: the entry argument
    value,      \* result of _compute_value
    delta,      \* result of _value_to_delta
    fb,         \* build_feedback_raster: the caller's arguments and what the call left
    nm,         \* astrocyte_modulation: the caller's arguments and what the call left
    sess,       \* RunSession: the handler lists and the last dispatched event
    grng,       \* the hidden generator of the random module: [seed, pos]
    abc,        \* ABClient.start, its socket and the backend of the run
    ins,        \* InputStreamer: the provider tables, _seq and the chunks emitted
    rl,         \* RobotLoop: _running, the worker threads and the events emitted
    fs          \* the policies directory written by sync_policies_from_contract

vars == <<rows, mapping, out_cmds, by_t, mp, pc, seen, stream, bits, entry, value, delta,
          fb, nm, sess, grng, abc, ins, rl, fs>>

----------------------------------------------------------------------------
(* Bounds of the model *)

MaxRows == 2
MaxMap == 2
MaxT == 2
MaxBits == 4
StreamLen == 3

----------------------------------------------------------------------------
(* Python helpers *)

PyNone == "<None>"

Abs(x) == IF x < 0 THEN -x ELSE x

Max2(a, b) == IF a >= b THEN a ELSE b

RECURSIVE sum(_)
sum(s) == IF s = <<>> THEN 0 ELSE Head(s) + sum(Tail(s))

\* s[a:b] for 0 <= a, 0 <= b (Python slice, 0-based, end exclusive)
Slice(s, a, b) ==
    LET hi == IF b > Len(s) THEN Len(s) ELSE b
    IN  IF a >= hi THEN <<>> ELSE SubSeq(s, a + 1, hi)

\* x or y on str values, None and "" being falsy
StrOr(x, y) == IF x \in {PyNone, ""} THEN y ELSE x

\* str(x or "")
StrOrEmpty(x) == IF x \in {PyNone, ""} THEN "" ELSE x

RECURSIVE lstrip(_)
lstrip(s) == IF s # <<>> /\ Head(s) = " " THEN lstrip(Tail(s)) ELSE s

RECURSIVE rstrip(_)
rstrip(s) ==
    IF s # <<>> /\ s[Len(s)] = " " THEN rstrip(SubSeq(s, 1, Len(s) - 1)) ELSE s

strip(s) == rstrip(lstrip(s))

Digits == <<"0", "1", "2", "3", "4", "5", "6", "7", "8", "9">>

IsDigit(c) == \E d \in 1..10 : Digits[d] = c

DigitVal(c) == (CHOOSE d \in 1..10 : Digits[d] = c) - 1

RECURSIVE DigitsVal(_, _)
DigitsVal(s, acc) ==
    IF s = <<>> THEN acc ELSE DigitsVal(Tail(s), 10 * acc + DigitVal(Head(s)))

\* int(str): surrounding whitespace stripped, optional sign, then digits only
IntOfStr(s) ==
    LET u == strip(s)
        signed == u # <<>> /\ Head(u) \in {"-", "+"}
        body == IF signed THEN Tail(u) ELSE u
    IN  IF body = <<>> \/ \E i \in DOMAIN body : ~IsDigit(body[i])
        THEN <<>>
        ELSE IF signed /\ Head(u) = "-"
             THEN << -DigitsVal(body, 0) >>
             ELSE << DigitsVal(body, 0) >>

\* int(float): truncation toward zero; the float is n tenths
IntOfTenths(n) == IF n >= 0 THEN n \div 10 ELSE -((-n) \div 10)

\* int(v): <<result>>, or <<>> when int() raises
PyInt(v) ==
    CASE v.k = "int" -> << v.n >>
      [] v.k = "float" -> << IntOfTenths(v.n) >>
      [] v.k = "str" -> IntOfStr(v.s)
      [] OTHER -> <<>>

PInt(n) == [k |-> "int", n |-> n, s |-> <<>>]
PFloat(tenths) == [k |-> "float", n |-> tenths, s |-> <<>>]
PStr(chars) == [k |-> "str", n |-> 0, s |-> chars]
NoneVal == [k |-> "None", n |-> 0, s |-> <<>>]

----------------------------------------------------------------------------
(* decoder.py: schemes *)

_clamp(x, lo, hi) == IF x < lo THEN lo ELSE IF x > hi THEN hi ELSE x

\* bitsArg: [list |-> BOOLEAN, elems |-> sequence of Python values]
_as_bits(bitsArg) ==
    IF ~bitsArg.list
    THEN <<>>
    ELSE << [i \in DOMAIN bitsArg.elems |->
                LET p == PyInt(bitsArg.elems[i])
                IN  IF p # <<>> /\ p[1] # 0 THEN 1 ELSE 0] >>

_bipolar_split(b) ==
    LET n == Len(b)
        half == n \div 2
    IN  IF n < 2 THEN 0
        ELSE IF half <= 0 THEN 0
        ELSE sum(Slice(b, 0, half)) - sum(Slice(b, half, half * 2))

_addition(b) == IF Len(b) <= 0 THEN 0 ELSE sum(b)

_boolean_threshold(b, threshold) ==
    LET n == Len(b)
        thr1 == IF threshold < 1 THEN 1 ELSE threshold
        thr == IF thr1 > n THEN n ELSE thr1
    IN  IF n <= 0 THEN 0 ELSE IF sum(b) >= thr THEN 1 ELSE 0

\* faulty variant of _bipolar_scalar: the second half runs to the end of b
_bipolar_scalar_tail(b) ==
    LET n == Len(b)
        half == n \div 2
        pos == sum(Slice(b, 0, half))
        neg == sum(Slice(b, half, n))
    IN  IF n < 2 THEN 0
        ELSE IF pos > neg THEN 1 ELSE IF neg > pos THEN -1 ELSE 0

_bipolar_scalar(b) ==
    LET n == Len(b)
        half == n \div 2
        pos == sum(Slice(b, 0, half))
        neg == sum(Slice(b, half, half * 2))
    IN  IF n < 2 THEN 0
        ELSE IF half <= 0 THEN 0
        ELSE IF pos > neg THEN 1 ELSE IF neg > pos THEN -1 ELSE 0

\* (entry.scheme or "bipolarSplit").strip()
SchemeOf(e) == strip(IF e.scheme = <<>> THEN <<"bipolarSplit">> ELSE e.scheme)

\* faulty variant of _compute_value: an unknown scheme falls back to addition
_compute_value_lenient(b, e) ==
    LET scheme == SchemeOf(e)
    IN  CASE scheme = <<"bipolarSplit">> -> _bipolar_split(b)
          [] scheme = <<"addition">> -> _addition(b)
          [] scheme = <<"booleanThreshold">> ->
                _boolean_threshold(b, IF e.threshold = <<>>
                                      THEN Max2(1, Len(b) \div 2)
                                      ELSE e.threshold[1])
          [] scheme = <<"bipolarScalar">> -> _bipolar_scalar(b)
          [] OTHER -> _addition(b)

_compute_value(b, e) ==
    LET scheme == SchemeOf(e)
    IN  CASE scheme = <<"bipolarSplit">> -> _bipolar_split(b)
          [] scheme = <<"addition">> -> _addition(b)
          [] scheme = <<"booleanThreshold">> ->
                _boolean_threshold(b, IF e.threshold = <<>>
                                      THEN Max2(1, Len(b) \div 2)
                                      ELSE e.threshold[1])
          [] scheme = <<"bipolarScalar">> -> _bipolar_scalar(b)
          [] OTHER -> 0

----------------------------------------------------------------------------
(* decoder.py: value -> delta *)

\* value * per_step_max * gain after the optional inversion (lines 199-202)
ScaledDelta(v, e) == (IF e.invert THEN -v ELSE v) * e.per_step_max * e.gain

\* the min_step floor (lines 207-208)
MinStepped(d, e) ==
    IF e.min_step # 0 /\ 0 < Abs(d) /\ Abs(d) < e.min_step
    THEN IF d > 0 THEN e.min_step ELSE -e.min_step
    ELSE d

\* the optional clamp (lines 210-212)
Clamped(d, e) ==
    IF Len(e.clamp) = 2 THEN _clamp(d, e.clamp[1], e.clamp[2]) ELSE d

\* faulty variant of _value_to_delta: the clamp is applied before the min_step floor
_value_to_delta_clamp_first(v, e) ==
    LET d == ScaledDelta(v, e)
    IN  IF e.deadzone # 0 /\ Abs(d) < e.deadzone
        THEN 0
        ELSE MinStepped(Clamped(d, e), e)

\* faulty variant of _value_to_delta: the min_step floor is applied before the deadzone
_value_to_delta_floor_first(v, e) ==
    LET d == MinStepped(ScaledDelta(v, e), e)
    IN  IF e.deadzone # 0 /\ Abs(d) < e.deadzone
        THEN 0
        ELSE Clamped(d, e)

_value_to_delta(v, e) ==
    LET d == ScaledDelta(v, e)
    IN  IF e.deadzone # 0 /\ Abs(d) < e.deadzone
        THEN 0
        ELSE Clamped(MinStepped(d, e), e)

----------------------------------------------------------------------------
(* decoder.py: MappingEntry and normalize_mapping *)

\* @dataclass MappingEntry with its defaults (0.01 is one unit)
MappingEntry(node_id, channel) ==
    [node_id |-> node_id, channel |-> channel, scheme |-> <<"bipolarSplit">>,
     per_step_max |-> 1, gain |-> 1, deadzone |-> 0, min_step |-> 0,
     invert |-> FALSE, threshold |-> <<>>, clamp |-> <<>>]

\* a clamp / limits value of a record: nothing, {"min", "max"} or a list
NoClampVal == [k |-> "none", v |-> <<>>]
ClampDict(lo, hi) == [k |-> "dict", v |-> <<lo, hi>>]
ClampList(v) == [k |-> "list", v |-> v]

\* a key/value record with every known key absent
EmptyDict ==
    [node_id |-> PyNone, nodeId |-> PyNone, channel |-> PyNone,
     controllerChannel |-> PyNone, scheme |-> <<>>,
     per_step_max |-> <<>>, perStepMax |-> <<>>, perStepMaxRad |-> <<>>,
     gain |-> <<>>, deadzone |-> <<>>,
     min_step |-> <<>>, minStep |-> <<>>, minStepRad |-> <<>>,
     invert |-> FALSE, threshold |-> <<>>,
     clamp |-> NoClampVal, limits |-> NoClampVal]

\* the three kinds of element a mapping list may hold
TypedItem(e) == [obj |-> "MappingEntry", e |-> e, d |-> EmptyDict]
DictItem(d) == [obj |-> "dict", e |-> MappingEntry("", ""), d |-> d]
OtherItem == [obj |-> "other", e |-> MappingEntry("", ""), d |-> EmptyDict]

\* m.get(k, default) for a key that is present or absent
GetOr(opt, default) == IF opt = <<>> THEN default ELSE opt[1]

\* lines 232-237
ClampTuple(d) ==
    LET falsy(c) == c.k = "none" \/ (c.k = "list" /\ c.v = <<>>)
        clamp_val == IF falsy(d.clamp) THEN d.limits ELSE d.clamp
    IN  IF clamp_val.k = "dict" THEN clamp_val.v
        ELSE IF clamp_val.k = "list" /\ Len(clamp_val.v) = 2 THEN clamp_val.v
        ELSE <<>>

\* lines 239-256
EntryOfDict(d, node_id, channel) ==
    [node_id |-> node_id,
     channel |-> channel,
     scheme |-> IF d.scheme = <<>> THEN <<"bipolarSplit">> ELSE d.scheme,
     per_step_max |-> IF d.per_step_max # <<>> THEN d.per_step_max[1]
                      ELSE GetOr(d.perStepMax, GetOr(d.perStepMaxRad, 1)),
     gain |-> GetOr(d.gain, 1),
     deadzone |-> GetOr(d.deadzone, 0),
     min_step |-> IF d.min_step # <<>> THEN d.min_step[1]
                  ELSE GetOr(d.minStep, GetOr(d.minStepRad, 0)),
     invert |-> d.invert,
     threshold |-> d.threshold,
     clamp |-> ClampTuple(d)]

\* one pass of the loop of normalize_mapping: the entries m adds to out
NormalizeItem(m) ==
    IF m.obj = "MappingEntry" THEN << m.e >>
    ELSE IF m.obj # "dict" THEN <<>>
    ELSE LET node_id == StrOr(m.d.node_id, StrOr(m.d.nodeId, ""))
             channel == StrOr(m.d.channel, StrOr(m.d.controllerChannel, ""))
         IN  IF node_id = "" \/ channel = ""
             THEN <<>>
             ELSE << EntryOfDict(m.d, node_id, channel) >>

RECURSIVE normalize_mapping(_)
normalize_mapping(m) ==
    IF m = <<>> THEN <<>>
    ELSE NormalizeItem(Head(m)) \o normalize_mapping(Tail(m))

----------------------------------------------------------------------------
(* decoder.py: decode_stream_rows *)

\* a row object: a dict {"t", "id", "bits"} or something that is no dict
Row(t, id, b) == [obj |-> "dict", t |-> t, id |-> id, bits |-> b]
BitList(ints) == [list |-> TRUE, elems |-> [i \in DOMAIN ints |-> PInt(ints[i])]]
NotAList == [list |-> FALSE, elems |-> <<>>]
NonDictRow == [obj |-> "other", t |-> NoneVal, id |-> PyNone, bits |-> NotAList]

EmptyDictValue == [x \in {} |-> <<>>]

\* lines 276-278: node_id -> mapping entries
ById(entries) ==
    [n \in {entries[i].node_id : i \in DOMAIN entries} |->
        SelectSeq(entries, LAMBDA e : e.node_id = n)]

\* int(r.get("t")) inside the try: <<t>>, or <<>> when anything raises
RowT(r) == IF r.obj # "dict" THEN <<>> ELSE PyInt(r.t)

\* faulty variant of GroupRow: a row with an unreadable t is filed under t = 0
GroupRow_default_zero(acc, r) ==
    LET t == IF RowT(r) = <<>> THEN 0 ELSE RowT(r)[1]
    IN  IF t \in DOMAIN acc
        THEN [acc EXCEPT ![t] = Append(@, r)]
        ELSE [k \in DOMAIN acc \cup {t} |-> IF k = t THEN <<r>> ELSE acc[k]]

\* lines 283-287: one pass of the grouping loop
GroupRow(acc, r) ==
    IF RowT(r) = <<>> THEN acc
    ELSE LET t == RowT(r)[1]
         IN  IF t \in DOMAIN acc
             THEN [acc EXCEPT ![t] = Append(@, r)]
             ELSE [k \in DOMAIN acc \cup {t} |-> IF k = t THEN <<r>> ELSE acc[k]]

RECURSIVE GroupRows(_, _)
GroupRows(acc, rs) ==
    IF rs = <<>> THEN acc ELSE GroupRows(GroupRow(acc, Head(rs)), Tail(rs))

\* faulty variant of by_t_new: the dict of the previous call is used again
by_t_kept == by_t

\* line 281: by_t = {}
by_t_new == EmptyDictValue

\* the local by_t after the grouping loop
ByT(rs) == GroupRows(by_t_new, rs)

\* the keys in the order they were inserted
RECURSIVE insertion_order(_, _)
insertion_order(rs, done) ==
    IF rs = <<>> THEN <<>>
    ELSE LET t == RowT(Head(rs))
         IN  IF t = <<>> \/ t[1] \in done
             THEN insertion_order(Tail(rs), done)
             ELSE <<t[1]>> \o insertion_order(Tail(rs), done \cup {t[1]})

RECURSIVE SortedSeq(_)
SortedSeq(S) ==
    IF S = {} THEN <<>>
    ELSE LET m == CHOOSE x \in S : \A y \in S : x <= y
         IN  <<m>> \o SortedSeq(S \ {m})

\* faulty variant of timesteps: the keys are not sorted
timesteps_unsorted(rs, grouped) == insertion_order(rs, {})

\* line 290: sorted(by_t.keys())
timesteps(rs, grouped) == SortedSeq(DOMAIN grouped)

\* faulty variant of AddEntry: the delta is stored, not added
AddEntry_overwrite(deltas, b, e) ==
    LET d == _value_to_delta(_compute_value(b, e), e)
    IN  IF d = 0 THEN deltas
        ELSE [c \in DOMAIN deltas \cup {e.channel} |->
                 IF c = e.channel THEN d ELSE deltas[c]]

\* lines 306-310: one pass of the loop over the entries of a row
AddEntry(deltas, b, e) ==
    LET d == _value_to_delta(_compute_value(b, e), e)
    IN  IF d = 0 THEN deltas
        ELSE IF e.channel \in DOMAIN deltas
             THEN [deltas EXCEPT ![e.channel] = @ + d]
             ELSE [c \in DOMAIN deltas \cup {e.channel} |->
                      IF c = e.channel THEN d ELSE deltas[c]]

RECURSIVE AddEntries(_, _, _)
AddEntries(deltas, b, entries) ==
    IF entries = <<>> THEN deltas
    ELSE AddEntries(AddEntry(deltas, b, Head(entries)), b, Tail(entries))

\* lines 294-310: one pass of the loop over the rows of a timestep
AddRow(deltas, r, by_id) ==
    LET out_id == StrOrEmpty(r.id)
        b == _as_bits(r.bits)
    IN  IF out_id = "" THEN deltas
        ELSE IF out_id \notin DOMAIN by_id THEN deltas
        ELSE IF b = <<>> THEN deltas
        ELSE AddEntries(deltas, b[1], by_id[out_id])

RECURSIVE AddRows(_, _, _)
AddRows(deltas, rs, by_id) ==
    IF rs = <<>> THEN deltas
    ELSE AddRows(AddRow(deltas, Head(rs), by_id), Tail(rs), by_id)

decode_stream_rows(rs, m) ==
    LET by_id == ById(normalize_mapping(m))
        grouped == ByT(rs)
        ts == timesteps(rs, grouped)
    IN  [k \in DOMAIN ts |->
            [t |-> ts[k], deltas |-> AddRows(EmptyDictValue, grouped[ts[k]], by_id)]]

----------------------------------------------------------------------------
(* Inputs *)

\* The fields of a typed entry and the values of the numeric keys of a record
\* are numbers of the declared type; what varies is which keys are present,
\* which names are empty, and what a row carries as "t", "id" and "bits".

RECURSIVE SeqsUpTo(_, _)
SeqsUpTo(S, n) ==
    IF n = 0 THEN { <<>> }
    ELSE LET shorter == SeqsUpTo(S, n - 1)
         IN  shorter \cup { Append(q, x) : q \in {r \in shorter : Len(r) = n - 1}, x \in S }

SeqsOfLen(S, n) == { q \in SeqsUpTo(S, n) : Len(q) = n }

\* rows of a decode_stream_rows call
DecodeRows ==
    UNION { { Row(PInt(t), "A", BitList(<<1, 0>>)),
              Row(PInt(t), "B", BitList(<<1, 0>>)) } : t \in 1..MaxT }
    \cup { Row(PInt(1), "A", BitList(<<1, 1, 0>>)),
           Row(PFloat(15), "B", BitList(<<0, 1>>)),
           Row(PStr(<<" ", "2">>), "A",
               [list |-> TRUE, elems |-> <<PInt(2), PStr(<<"x">>)>>]),
           Row(PStr(<<"1", ".", "5">>), "A", BitList(<<1, 0>>)),
           NonDictRow,
           Row(PInt(1), "", BitList(<<1, 0>>)),
           Row(PInt(2), "A", NotAList) }

\* elements of the mapping of a decode_stream_rows call
DecodeItems ==
    { TypedItem(MappingEntry("A", "c")),
      TypedItem([MappingEntry("B", "c") EXCEPT !.invert = TRUE]),
      TypedItem([MappingEntry("A", "d") EXCEPT !.scheme = <<"addition">>, !.deadzone = 2]),
      DictItem([EmptyDict EXCEPT !.nodeId = "B", !.controllerChannel = "d",
                                 !.scheme = <<"bipolarScalar">>, !.minStep = <<3>>,
                                 !.limits = ClampDict(-2, 2)]),
      TypedItem(MappingEntry("", "c")) }

\* elements of the mapping of a normalize_mapping call
NormalizeItems ==
    { TypedItem(MappingEntry(n, c)) : n \in {"", "A"}, c \in {"", "c"} }
    \cup { DictItem([EmptyDict EXCEPT !.node_id = n1, !.nodeId = n2,
                                      !.channel = c1, !.controllerChannel = c2]) :
             n1 \in {PyNone, "", "A"}, n2 \in {PyNone, "B"},
             c1 \in {PyNone, "", "c"}, c2 \in {PyNone, "d"} }
    \cup { DictItem([EmptyDict EXCEPT !.node_id = "A", !.channel = "c",
                                      !.perStepMaxRad = <<2>>, !.min_step = <<3>>,
                                      !.clamp = ClampList(<<-1, 1>>)]),
           OtherItem }

\* entries of a direct _compute_value / _value_to_delta call
SchemeNames ==
    { <<"bipolarSplit">>, <<"addition">>, <<"booleanThreshold">>, <<"bipolarScalar">>,
      <<"tanh">>, <<" ", "addition", " ">>, <<" ">>, <<>> }

UnitEntries ==
    { [MappingEntry("A", "c") EXCEPT !.scheme = sc, !.per_step_max = psm, !.gain = g,
                                    !.deadzone = dz, !.min_step = ms, !.invert = inv,
                                    !.threshold = thr, !.clamp = cl] :
        sc \in SchemeNames, psm \in {1, 2}, g \in {1, -1}, dz \in {0, 2}, ms \in {0, 3},
        inv \in BOOLEAN, thr \in {<<>>, <<2>>}, cl \in {<<>>, <<-1, 1>>, <<1, 2>>} }

\* the buffer and the mappings of a sequence of calls
StreamRows ==
    { Row(PInt(1), "A", BitList(<<1, 0>>)),
      Row(PInt(2), "B", BitList(<<1, 0>>)),
      Row(PStr(<<"1", ".", "5">>), "A", BitList(<<1, 0>>)) }

CallMappings ==
    { <<>>,
      << TypedItem(MappingEntry("A", "c")) >>,
      << TypedItem(MappingEntry("A", "c")),
         TypedItem([MappingEntry("B", "c") EXCEPT !.invert = TRUE]) >> }

----------------------------------------------------------------------------
(* The callers *)

\* nothing returned yet by the decoder
NoResults ==
    /\ out_cmds = <<>>
    /\ by_t = EmptyDictValue
    /\ mp = <<>>
    /\ seen = <<>>

\* no direct call of _compute_value / _value_to_delta
NoUnitCall ==
    /\ bits = <<>>
    /\ entry = MappingEntry("", "")
    /\ value = 0
    /\ delta = 0

\* the client, the input streamer, the robot loop and the scaffold are not in use
NoTransport ==
    /\ abc = <<>>
    /\ ins = <<>>
    /\ rl = <<>>
    /\ fs = <<>>

\* the utilities and the session are not in use
NoUtilities ==
    /\ fb = <<>>
    /\ nm = <<>>
    /\ sess = <<>>
    /\ grng = <<>>
    /\ NoTransport

\* one call of decode_stream_rows
InitDecode ==
    /\ rows \in SeqsUpTo(DecodeRows, MaxRows)
    /\ mapping \in SeqsUpTo(DecodeItems, MaxMap)
    /\ stream = <<>>
    /\ pc = "call"
    /\ NoResults
    /\ NoUnitCall
    /\ NoUtilities

\* one call of normalize_mapping
InitNormalize ==
    /\ rows = <<>>
    /\ mapping \in SeqsUpTo(NormalizeItems, MaxMap)
    /\ stream = <<>>
    /\ pc = "call"
    /\ NoResults
    /\ NoUnitCall
    /\ NoUtilities

\* _compute_value, _value_to_delta and a one-row decode_stream_rows on one entry
InitUnit ==
    /\ rows = <<>>
    /\ mapping = <<>>
    /\ stream = <<>>
    /\ bits \in SeqsUpTo({0, 1}, MaxBits)
    /\ entry \in UnitEntries
    /\ value = 0
    /\ delta = 0
    /\ pc = "start"
    /\ NoResults
    /\ NoUtilities

\* a sequence of decode_stream_rows calls on windows of one buffer
InitCalls ==
    /\ rows = <<>>
    /\ mapping = <<>>
    /\ stream \in SeqsOfLen(StreamRows, StreamLen)
    /\ pc = "idle"
    /\ NoResults
    /\ NoUnitCall
    /\ NoUtilities

\* mp = normalize_mapping(mapping)
Normalize ==
    /\ pc = "call"
    /\ mp' = normalize_mapping(mapping)
    /\ pc' = "normalized"
    /\ UNCHANGED <<rows, mapping, out_cmds, by_t, seen, stream, bits, entry, value, delta, fb, nm, sess, grng, abc, ins, rl, fs>>

\* out_cmds = decode_stream_rows(rows, mapping)
Decode ==
    /\ pc = "call"
    /\ out_cmds' = decode_stream_rows(rows, mapping)
    /\ by_t' = ByT(rows)
    /\ pc' = "return"
    /\ UNCHANGED <<rows, mapping, mp, seen, stream, bits, entry, value, delta, fb, nm, sess, grng, abc, ins, rl, fs>>

\* the caller passes a window stream[i:j] and one of its mappings
NewCall ==
    /\ pc \in {"idle", "return"}
    /\ \E i \in 0..Len(stream), j \in 0..Len(stream), m \in CallMappings :
          /\ i <= j
          /\ rows' = Slice(stream, i, j)
          /\ mapping' = m
    /\ pc' = "call"
    /\ UNCHANGED <<out_cmds, by_t, mp, seen, stream, bits, entry, value, delta, fb, nm, sess, grng, abc, ins, rl, fs>>

\* the caller keeps the call that just returned, to compare later results with
Remember ==
    /\ pc = "return"
    /\ seen' = << [rows |-> rows, mapping |-> mapping, out |-> out_cmds] >>
    /\ pc' = "idle"
    /\ UNCHANGED <<rows, mapping, out_cmds, by_t, mp, stream, bits, entry, value, delta, fb, nm, sess, grng, abc, ins, rl, fs>>

\* value = _compute_value(bits, entry)
ComputeValue ==
    /\ pc = "start"
    /\ value' = _compute_value(bits, entry)
    /\ pc' = "valued"
    /\ UNCHANGED <<rows, mapping, out_cmds, by_t, mp, seen, stream, bits, entry, delta, fb, nm, sess, grng, abc, ins, rl, fs>>

\* delta = _value_to_delta(value, entry)
ToDelta ==
    /\ pc = "valued"
    /\ delta' = _value_to_delta(value, entry)
    /\ pc' = "delta"
    /\ UNCHANGED <<rows, mapping, out_cmds, by_t, mp, seen, stream, bits, entry, value, fb, nm, sess, grng, abc, ins, rl, fs>>

\* decode_stream_rows([{"t": 1, "id": entry.node_id, "bits": bits}], [entry])
DecodeOne ==
    /\ pc = "delta"
    /\ rows' = << Row(PInt(1), entry.node_id, BitList(bits)) >>
    /\ mapping' = << TypedItem(entry) >>
    /\ out_cmds' = decode_stream_rows(rows', mapping')
    /\ by_t' = ByT(rows')
    /\ pc' = "decoded"
    /\ UNCHANGED <<mp, seen, stream, bits, entry, value, delta, fb, nm, sess, grng, abc, ins, rl, fs>>

NextDecode == Decode
NextNormalize == Normalize
NextUnit == ComputeValue \/ ToDelta \/ DecodeOne
NextCalls == NewCall \/ Decode \/ Remember

SpecDecode == InitDecode /\ [][NextDecode]_vars
SpecNormalize == InitNormalize /\ [][NextNormalize]_vars
SpecUnit == InitUnit /\ [][NextUnit]_vars
SpecCalls == InitCalls /\ [][NextCalls]_vars

Init == InitDecode
Next == NextDecode
Spec == SpecDecode

----------------------------------------------------------------------------
(* Claims about the stream decoder *)

Sign(x) == IF x > 0 THEN 1 ELSE IF x < 0 THEN -1 ELSE 0

\* the timesteps that int() can read from the rows
ParsedTimesteps(rs) ==
    { RowT(rs[i])[1] : i \in { j \in DOMAIN rs : RowT(rs[j]) # <<>> } }

SomeDelta(cmds) == \E k \in DOMAIN cmds : DOMAIN cmds[k].deltas # {}

\* C1: decode_stream_rows returns exactly one Command per distinct timestep that
\* int() reads from the rows, in strictly ascending order whatever the arrival
\* order; no rows give no Commands, and an empty mapping gives empty deltas.
C1_OneCommandPerTimestepAscending ==
    pc = "return" =>
        /\ { out_cmds[k].t : k \in DOMAIN out_cmds } = ParsedTimesteps(rows)
        /\ Len(out_cmds) = Cardinality(ParsedTimesteps(rows))
        /\ \A k \in 1..(Len(out_cmds) - 1) : out_cmds[k].t < out_cmds[k + 1].t
        /\ (rows = <<>> => out_cmds = <<>>)
        /\ (mapping = <<>> => \A k \in DOMAIN out_cmds : DOMAIN out_cmds[k].deltas = {})

\* rows arriving as " 2" and then 1.5: two Commands, t = 1 before t = 2
C1_Witness ==
    /\ pc = "return"
    /\ Len(rows) = 2
    /\ rows[1].t.k = "str" /\ RowT(rows[1]) = <<2>>
    /\ rows[2].t.k = "float" /\ RowT(rows[2]) = <<1>>
    /\ Len(out_cmds) = 2
    /\ SomeDelta(out_cmds)

\* the sum the claim C2 gives for channel ch at timestep t
ClaimedDelta(rs, m, t, ch) ==
    LET entries == normalize_mapping(m)
        OfRow(r) ==
            sum([j \in DOMAIN entries |->
                    IF entries[j].node_id = r.id /\ entries[j].channel = ch
                    THEN _value_to_delta(_compute_value(_as_bits(r.bits)[1], entries[j]),
                                         entries[j])
                    ELSE 0])
    IN  sum([i \in DOMAIN rs |->
                IF RowT(rs[i]) = <<t>> /\ rs[i].bits.list THEN OfRow(rs[i]) ELSE 0])

\* C2: in the Command for timestep t, deltas[channel] is the sum, over every row
\* at t and every mapping entry whose node_id equals the row's id and whose
\* channel is that channel, of to_delta(compute_value(row.bits, entry), entry).
C2_DeltaIsSumOverMatchingEntries ==
    pc = "return" =>
        \A k \in DOMAIN out_cmds : \A ch \in DOMAIN out_cmds[k].deltas :
            out_cmds[k].deltas[ch] = ClaimedDelta(rows, mapping, out_cmds[k].t, ch)

\* C3: no Command holds a channel whose delta is zero.
C3_NoZeroDelta ==
    pc = "return" =>
        \A k \in DOMAIN out_cmds : \A ch \in DOMAIN out_cmds[k].deltas :
            out_cmds[k].deltas[ch] # 0

\* C4: every entry normalize_mapping returns has a non-empty node_id and a
\* non-empty channel.
C4_NormalizedEntriesNonEmpty ==
    pc = "normalized" =>
        \A i \in DOMAIN mp : mp[i].node_id # "" /\ mp[i].channel # ""

\* the deadzone case of C5: deadzone > 0 and |value * per_step_max * gain| < deadzone
InDeadzone(v, e) == e.deadzone > 0 /\ Abs(v * e.per_step_max * e.gain) < e.deadzone

\* C5: in the deadzone case _value_to_delta returns exactly 0 whatever min_step
\* and clamp are, and a decode of that one row with that one entry leaves the
\* entry's channel out of deltas.
C5_DeadzoneSuppresses ==
    InDeadzone(value, entry) =>
        /\ (pc \in {"delta", "decoded"} => delta = 0)
        /\ (pc = "decoded" =>
                /\ Len(out_cmds) = 1
                /\ entry.channel \notin DOMAIN out_cmds[1].deltas)

\* a nonzero value inside the deadzone, with a min_step above it and a clamp
\* that excludes 0
C5_Witness ==
    /\ pc = "decoded"
    /\ InDeadzone(value, entry)
    /\ value # 0
    /\ entry.min_step > entry.deadzone
    /\ entry.clamp = <<1, 2>>
    /\ delta = 0

HasClamp(e) == Len(e.clamp) = 2 /\ e.clamp[1] <= e.clamp[2]

\* C6 as claimed: with a clamp (lo, hi), lo <= hi, every delta _value_to_delta
\* returns lies in [lo, hi].
C6_DeltaAlwaysInClamp ==
    (pc \in {"delta", "decoded"} /\ HasClamp(entry)) =>
        (entry.clamp[1] <= delta /\ delta <= entry.clamp[2])

\* C6 amended: with a clamp (lo, hi), lo <= hi, the delta lies in [lo, hi]
\* unless the deadzone suppressed it, and then it is 0, unclamped.
C6_DeltaInClampUnlessSuppressed ==
    (pc \in {"delta", "decoded"} /\ HasClamp(entry)) =>
        IF entry.deadzone # 0 /\ Abs(ScaledDelta(value, entry)) < entry.deadzone
        THEN delta = 0
        ELSE entry.clamp[1] <= delta /\ delta <= entry.clamp[2]

\* the min_step floor lifts the delta above hi and the clamp brings it back
C6_Witness ==
    /\ pc = "delta"
    /\ HasClamp(entry)
    /\ entry.deadzone = 0
    /\ 0 < Abs(ScaledDelta(value, entry))
    /\ Abs(ScaledDelta(value, entry)) < entry.min_step
    /\ entry.min_step > entry.clamp[2]
    /\ delta = entry.clamp[2]

\* C7: the bipolarScalar value of b is in {-1, 0, +1} and is the sign of the
\* bipolarSplit value of the same b; both are 0 when b has fewer than 2 bits.
C7_ScalarIsSignOfSplit ==
    (pc # "start" /\ SchemeOf(entry) = <<"bipolarScalar">>) =>
        /\ value \in {-1, 0, 1}
        /\ value = Sign(_bipolar_split(bits))
        /\ (Len(bits) < 2 => value = 0 /\ _bipolar_split(bits) = 0)

\* an odd length: the last bit is set and belongs to neither half
C7_Witness ==
    /\ pc = "valued"
    /\ SchemeOf(entry) = <<"bipolarScalar">>
    /\ Len(bits) = 3
    /\ bits[3] = 1
    /\ value = 1

KnownSchemes ==
    { <<"bipolarSplit">>, <<"addition">>, <<"booleanThreshold">>, <<"bipolarScalar">> }

\* C8 as claimed: a scheme name that is not exactly one of the four gives 0.
C8_InexactSchemeGivesZero ==
    (pc # "start" /\ entry.scheme \notin KnownSchemes) => value = 0

\* C8 amended: a scheme name that, once an empty name is replaced by
\* bipolarSplit and surrounding whitespace is stripped, is none of the four,
\* gives 0 for every bit sequence.
C8_UnknownSchemeGivesZero ==
    (pc # "start" /\ SchemeOf(entry) \notin KnownSchemes) => value = 0

C8_Witness ==
    /\ pc = "valued"
    /\ entry.scheme = <<"tanh">>
    /\ sum(bits) = 2
    /\ _bipolar_split(bits) # 0
    /\ value = 0

Parsable(r) == RowT(r) # <<>>

\* C9: the rows whose t int() cannot read are dropped: the result is the result
\* of the same call without them.
C9_UnparsableRowsDropped ==
    pc = "return" => out_cmds = decode_stream_rows(SelectSeq(rows, Parsable), mapping)

C9_Witness ==
    /\ pc = "return"
    /\ Len(rows) = 2
    /\ ~Parsable(rows[1])
    /\ Parsable(rows[2])
    /\ SomeDelta(out_cmds)

\* C10: a call leaves its rows and mapping as they were, and returns what an
\* earlier call with equal rows and mapping returned.
C10_PureFunctionOfArguments ==
    [][(pc = "call" /\ pc' = "return") =>
          /\ rows' = rows
          /\ mapping' = mapping
          /\ stream' = stream
          /\ (seen # <<>> /\ seen[1].rows = rows /\ seen[1].mapping = mapping)
                => out_cmds' = seen[1].out]_vars

\* the same window decoded again, after other calls
C10_Witness ==
    /\ pc = "return"
    /\ seen # <<>>
    /\ seen[1].rows = rows
    /\ seen[1].mapping = mapping
    /\ Len(rows) = 2
    /\ SomeDelta(out_cmds)
    /\ seen[1].out = out_cmds

----------------------------------------------------------------------------
(***************************************************************************)
(* Part 2: ab_sdk/utils/feedback.py, the feedback raster.                  *)
(*                                                                         *)
(* Numbers.  Deviations and dead_zone are counted in tenths, and so is a   *)
(* value drawn by random() (0..9 for [0.0, 1.0)).  Raster values (baseline *)
(* values and the signs +1 / -1) are whole numbers.                        *)
(***************************************************************************)

MaxDevs == 2
MaxN == 2
MaxSeed == 1
MaxDraws == 2

\* the k-th value a generator seeded with s returns from random()
Rand(s, k) == ((s + 1) * (3 * k + 7) + k * k) % 10

\* the generator after one rng.random()
RandomNext(rng) == [rng EXCEPT !.pos = @ + 1]

\* faulty variant of NewRandom: the draws come from the generator of the random module
SharedRandom(seed, os_seed) == grng

\* rng = random.Random(seed): a generator of its own; seed None is seeded by the system
NewRandom(seed, os_seed) ==
    [seed |-> IF seed = <<>> THEN os_seed ELSE seed[1], pos |-> 0]

\* faulty variant of BaselineMismatch: only a baseline that is too short is refused
BaselineTooShort(baseline, T, N) ==
    /\ baseline # <<>>
    /\ Len(baseline[1]) < T * N

\* baseline is not None and len(baseline) != T * N
BaselineMismatch(baseline, T, N) ==
    /\ baseline # <<>>
    /\ Len(baseline[1]) # T * N

\* faulty variant of ZeroRaster: one slot per timestep
ZeroRaster_T(T, N) == [j \in 1..T |-> 0]

\* [0.0] * (T * N)
ZeroRaster(T, N) == [j \in 1..(T * N) |-> 0]

\* dev = max(-1.0, min(1.0, float(dev_list[t])))
ClampDev(d) == Max2(-10, IF d <= 10 THEN d ELSE 10)

\* sign = 1.0 if dev >= 0 else -1.0
SignOf(dev) == IF dev >= 0 THEN 1 ELSE -1

\* rng.random() < (magnitude - dead_zone) / max(1e-9, 1.0 - dead_zone), for magnitude > dead_zone
Hit(r, magnitude, dead_zone) ==
    IF 10 - dead_zone <= 0
    THEN TRUE
    ELSE r * (10 - dead_zone) < (magnitude - dead_zone) * 10

\* faulty variant of SlotIndex: the timestep offset is forgotten
SlotIndex_i(t, N, i) == i + 1

\* raster[t * N + i], as a position of a sequence that starts at 1
SlotIndex(t, N, i) == t * N + i + 1

\* raster[j] = v, an IndexError left aside: j is always inside the list
SetSlot(raster, j, v) == [k \in 1..Len(raster) |-> IF k = j THEN v ELSE raster[k]]

\* for i in range(N): if rng.random() < prob: raster[t * N + i] = sign
RECURSIVE Slots(_, _, _, _, _, _)
Slots(st, t, N, i, dev, dead_zone) ==
    IF i >= N
    THEN st
    ELSE LET hit == Hit(Rand(st.rng.seed, st.rng.pos), Abs(dev), dead_zone)
         IN  Slots([raster |-> IF hit
                               THEN SetSlot(st.raster, SlotIndex(t, N, i), SignOf(dev))
                               ELSE st.raster,
                    rng |-> RandomNext(st.rng)],
                   t, N, i + 1, dev, dead_zone)

\* for t in range(T): a timestep inside the dead zone is skipped
RECURSIVE Timesteps(_, _, _, _, _)
Timesteps(st, dev_list, t, N, dead_zone) ==
    IF t >= Len(dev_list)
    THEN st
    ELSE LET dev == ClampDev(dev_list[t + 1])
         IN  Timesteps(IF Abs(dev) <= dead_zone
                       THEN st
                       ELSE Slots(st, t, N, 0, dev, dead_zone),
                       dev_list, t + 1, N, dead_zone)

\* build_feedback_raster(deviations, N, baseline, dead_zone=dead_zone, seed=seed):
\* raised, or the raster returned and the number of draws made from rng
build_feedback_raster(deviations, N, baseline, dead_zone, seed, os_seed) ==
    LET T == Len(deviations)
    IN  IF BaselineMismatch(baseline, T, N)
        THEN [raised |-> TRUE, raster |-> <<>>, draws |-> 0]
        ELSE LET raster0 == IF baseline = <<>> THEN ZeroRaster(T, N) ELSE baseline[1]
                 rng == NewRandom(seed, os_seed)
                 st == Timesteps([raster |-> raster0, rng |-> rng], deviations, 0, N, dead_zone)
             IN  [raised |-> FALSE, raster |-> st.raster, draws |-> st.rng.pos - rng.pos]

\* faulty variant of CallerBaseline: raster is the caller's list itself
CallerBaseline_alias(baseline, raster) ==
    IF baseline = <<>> \/ raster = <<>> THEN baseline ELSE << raster >>

\* the caller's baseline after the call: raster[:] = list(baseline) copied its
\* values, later writes go to raster only
CallerBaseline(baseline, raster) == baseline

(* The callers of build_feedback_raster *)

\* the arguments of one call, before it has run
FeedbackCall(deviations, N, baseline, dead_zone, seed) ==
    [deviations |-> deviations, N |-> N, baseline |-> baseline,
     dead_zone |-> dead_zone, seed |-> seed, raster |-> <<>>, draws |-> 0]

\* seed: None or an int
Seeds == {<<>>} \cup {<<s>> : s \in 0..MaxSeed}

\* a baseline of a given length: all 3 (outside [-1, 1]), or -1, 0, 1 in turn
BaselineOf(p, len) == [j \in 1..len |-> IF p = 1 THEN 3 ELSE (j % 3) - 1]

\* baseline: None, or a list of the right length, or one longer or shorter
Baselines(T, N) ==
    {<<>>} \cup {<< BaselineOf(p, len) >> :
                    p \in {1, 2}, len \in {l \in {T * N - 1, T * N, T * N + 1} : l >= 0}}

\* the arguments a sequence of calls draws from
RasterCalls ==
    {FeedbackCall(d, MaxN, b, 0, sd) :
        d \in {<<-5, 1>>, <<10>>}, b \in {<<>>, << BaselineOf(2, MaxN) >>}, sd \in Seeds}

\* the decoder is not in use
NoDecoder ==
    /\ rows = <<>>
    /\ mapping = <<>>
    /\ stream = <<>>
    /\ NoResults
    /\ NoUnitCall

\* one call of build_feedback_raster: deviations inside and outside [-1, 1] (in
\* tenths); dead_zone none, smallest, the whole range, and one below zero
InitFeedback ==
    /\ \E d \in SeqsUpTo({-12, -5, 0, 1, 10}, MaxDevs), N \in 0..MaxN,
          dz \in {-1, 0, 1, 10}, sd \in Seeds :
          \E b \in Baselines(Len(d), N) : fb = FeedbackCall(d, N, b, dz, sd)
    /\ grng = [seed |-> 0, pos |-> 0]
    /\ pc = "call"
    /\ nm = <<>>
    /\ sess = <<>>
    /\ NoDecoder
    /\ NoTransport

\* a sequence of build_feedback_raster calls, among other users of random
InitFeedbackCalls ==
    /\ fb \in RasterCalls
    /\ grng \in [seed : 0..MaxSeed, pos : {0}]
    /\ pc = "call"
    /\ nm = <<>>
    /\ sess = <<>>
    /\ NoDecoder
    /\ NoTransport

\* raster = build_feedback_raster(deviations, N, baseline, dead_zone=..., seed=...)
BuildFeedbackRaster ==
    /\ pc = "call"
    /\ \E os_seed \in 0..MaxSeed :
          LET r == build_feedback_raster(fb.deviations, fb.N, fb.baseline,
                                         fb.dead_zone, fb.seed, os_seed)
          IN  /\ fb' = [fb EXCEPT !.raster = r.raster,
                                  !.draws = r.draws,
                                  !.baseline = CallerBaseline(fb.baseline, r.raster)]
              /\ pc' = IF r.raised THEN "raise" ELSE "return"
    /\ UNCHANGED <<rows, mapping, out_cmds, by_t, mp, seen, stream, bits, entry, value, delta,
                   nm, sess, grng, abc, ins, rl, fs>>

\* the caller keeps the call that just returned, to compare a later raster with
RememberRaster ==
    /\ pc = "return"
    /\ seen' = << fb >>
    /\ pc' = "idle"
    /\ UNCHANGED <<rows, mapping, out_cmds, by_t, mp, stream, bits, entry, value, delta,
                   fb, nm, sess, grng, abc, ins, rl, fs>>

\* the caller prepares another call
NextRasterCall ==
    /\ pc \in {"idle", "return", "raise"}
    /\ \E c \in RasterCalls : fb' = c
    /\ pc' = "call"
    /\ UNCHANGED <<rows, mapping, out_cmds, by_t, mp, seen, stream, bits, entry, value, delta,
                   nm, sess, grng, abc, ins, rl, fs>>

\* some other code calls random.random() (astro.py:154 does)
OtherRandom ==
    /\ grng.pos < MaxDraws
    /\ grng' = RandomNext(grng)
    /\ UNCHANGED <<rows, mapping, out_cmds, by_t, mp, pc, seen, stream, bits, entry, value,
                   delta, fb, nm, sess, abc, ins, rl, fs>>

NextFeedback == BuildFeedbackRaster
NextFeedbackCalls == BuildFeedbackRaster \/ RememberRaster \/ NextRasterCall \/ OtherRandom

SpecFeedback == InitFeedback /\ [][NextFeedback]_vars
SpecFeedbackCalls == InitFeedbackCalls /\ [][NextFeedbackCalls]_vars

----------------------------------------------------------------------------
(* Claims about the feedback raster *)

\* the call in c got a baseline whose length is not len(deviations) * N
WrongBaseline(c) ==
    /\ c.baseline # <<>>
    /\ Len(c.baseline[1]) # Len(c.deviations) * c.N

\* the value slot j of the raster starts with, for the call in c
InitialValue(c, j) == IF c.baseline = <<>> THEN 0 ELSE c.baseline[1][j]

\* timestep t (from 0) of the call in c lies in the dead zone after clamping
Dead(c, t) ==
    LET d == c.deviations[t + 1]
        dev == IF d > 10 THEN 10 ELSE IF d < -10 THEN -10 ELSE d
    IN  Abs(dev) <= c.dead_zone

\* C11: a call with no baseline, or with a baseline of len(deviations) * N values,
\* returns, and what it returns is a flat sequence of exactly len(deviations) * N values
C11_RasterHasTTimesNValues ==
    (pc \in {"return", "raise"} /\ ~WrongBaseline(fb))
        => /\ pc = "return"
           /\ DOMAIN fb.raster = 1..(Len(fb.deviations) * fb.N)

C11_Witness ==
    /\ pc = "return"
    /\ Len(fb.deviations) = 2
    /\ fb.N = 2
    /\ fb.baseline = <<>>
    /\ Len(fb.raster) = 4
    /\ \E j \in 1..4 : fb.raster[j] # 0

\* C12: a call whose baseline has another length than len(deviations) * N raises
\* at once: it returns no raster, draws nothing from any generator and leaves the
\* baseline as it was
C12_WrongBaselineRaisesAtOnce ==
    [][(pc = "call" /\ WrongBaseline(fb))
          => /\ pc' = "raise"
             /\ fb'.raster = <<>>
             /\ fb'.draws = 0
             /\ fb'.baseline = fb.baseline
             /\ grng' = grng]_vars

C12_Witness ==
    /\ pc = "raise"
    /\ fb.baseline # <<>>
    /\ Len(fb.baseline[1]) = Len(fb.deviations) * fb.N + 1
    /\ Len(fb.deviations) = 2
    /\ fb.deviations[1] = 10
    /\ fb.N = 2
    /\ fb.dead_zone = 0

\* C13: in a returned raster, the N slots of every timestep whose clamped deviation
\* has a magnitude of at most dead_zone hold the baseline's value at their position,
\* or 0 when there is no baseline, whatever the other timesteps and the seed are
C13_DeadTimestepsKeepInitialValues ==
    pc = "return"
        => \A t \in 0..(Len(fb.deviations) - 1) :
              Dead(fb, t)
                  => \A i \in 0..(fb.N - 1) :
                        fb.raster[t * fb.N + i + 1] = InitialValue(fb, t * fb.N + i + 1)

C13_Witness ==
    /\ pc = "return"
    /\ fb.deviations = <<1, 10>>
    /\ fb.dead_zone = 1
    /\ fb.N = 2
    /\ fb.baseline # <<>>
    /\ fb.raster[1] = 3
    /\ fb.raster[2] = 3
    /\ fb.raster[3] = 1
    /\ fb.raster[4] = 1

\* C14: every slot of a returned raster holds the value it started with (the
\* baseline's, unclamped, or 0) or the sign of its timestep's deviation, +1 for a
\* deviation >= 0 and -1 for one below 0; the caller's baseline is as it was
C14_SlotsHoldInitialValueOrSign ==
    [][(pc = "call" /\ pc' = "return")
          => /\ \A t \in 0..(Len(fb.deviations) - 1) : \A i \in 0..(fb.N - 1) :
                   LET j == t * fb.N + i + 1
                   IN  \/ fb'.raster[j] = InitialValue(fb, j)
                       \/ fb'.raster[j] = (IF fb.deviations[t + 1] >= 0 THEN 1 ELSE -1)
             /\ fb'.baseline = fb.baseline]_vars

C14_Witness ==
    /\ pc = "return"
    /\ fb.deviations = <<-5>>
    /\ fb.N = 2
    /\ fb.baseline = << <<3, 3>> >>
    /\ fb.raster = <<3, -1>>

\* the two calls got the same deviations, N, dead_zone, baseline and seed
SameRasterArguments(c, d) ==
    /\ c.deviations = d.deviations
    /\ c.N = d.N
    /\ c.dead_zone = d.dead_zone
    /\ c.baseline = d.baseline
    /\ c.seed = d.seed

\* C15: a call that is given the same seed, deviations, N, dead_zone and baseline
\* as an earlier call returns the same raster, whatever calls of
\* build_feedback_raster and draws from the random module came in between
C15_SameSeedSameRaster ==
    (pc = "return" /\ seen # <<>> /\ fb.seed # <<>> /\ SameRasterArguments(seen[1], fb))
        => fb.raster = seen[1].raster

C15_Witness ==
    /\ pc = "return"
    /\ seen # <<>>
    /\ fb.seed # <<>>
    /\ SameRasterArguments(seen[1], fb)
    /\ fb.deviations = <<-5, 1>>
    /\ grng.pos > 0
    /\ \E j \in 1..Len(fb.raster) : fb.raster[j] = -1
    /\ fb.raster = seen[1].raster

----------------------------------------------------------------------------
(***************************************************************************)
(* Part 3: ab_sdk/utils/astro.py, the neuromodulation update.              *)
(*                                                                         *)
(* Numbers.  A float is an exact fraction [n, d] in lowest terms (d > 0).  *)
(* An exponent is counted in halves (5 for 2.5).  A layer is a record      *)
(* [layerName, data]: layerName "" is a missing or empty name, data is     *)
(* <<list>> or <<>> when it is not a list.                                 *)
(***************************************************************************)

MaxLayers == 2
MaxCalls == 2

\* the element of a set of one element: Only({e(x) : x \in {v}}) is e(v), with v
\* worked out once however often e uses it
Only(S) == CHOOSE x \in S : TRUE

RECURSIVE GCD(_, _)
GCD(a, b) == IF b = 0 THEN a ELSE GCD(b, a % b)

\* the float n / d
Q(n, d) == LET g == GCD(Abs(n), d) IN [n |-> n \div g, d |-> d \div g]

\* x + y, x - y, x * y, x <= y
QAdd(x0, y0) ==
    Only({LET l == (x.d \div GCD(x.d, y.d)) * y.d
          IN  Q(x.n * (l \div x.d) + y.n * (l \div y.d), l) : x \in {x0}, y \in {y0}})
QSub(x, y0) == Only({QAdd(x, [n |-> -y.n, d |-> y.d]) : y \in {y0}})
QMul(x0, y0) ==
    Only({LET a == Q(x.n, y.d)
              b == Q(y.n, x.d)
          IN  Q(a.n * b.n, a.d * b.d) : x \in {x0}, y \in {y0}})
QLe(x0, y0) == \E x \in {x0}, y \in {y0} : x.n * y.d <= y.n * x.d

\* max(lo, min(hi, x))
QClamp(lo0, hi0, x0) ==
    Only({LET m == IF QLe(hi, x) THEN hi ELSE x
          IN  IF QLe(m, lo) THEN lo ELSE m : lo \in {lo0}, hi \in {hi0}, x \in {x0}})

\* x ** (e2 / 2), for an x whose root is a fraction when e2 is odd
RECURSIVE QPow(_, _)
QPow(x0, e2) ==
    Only({IF e2 = 0 THEN Q(1, 1)
          ELSE IF e2 % 2 = 0 THEN QMul(x, QPow(x, e2 - 2))
          ELSE QPow([n |-> CHOOSE r \in 0..x.n : r * r = x.n,
                     d |-> CHOOSE r \in 1..x.d : r * r = x.d], 2 * e2) : x \in {x0}})

\* d[k] = v
Put(d, k, v) == [x \in DOMAIN d \cup {k} |-> IF x = k THEN v ELSE d[x]]

\* elig_by_layer: the data of the last layer of each name, for named layers with list data
EligByLayer(eligibility) ==
    LET good == {j \in 1..Len(eligibility) :
                    eligibility[j].layerName # "" /\ eligibility[j].data # <<>>}
    IN  [name \in {eligibility[j].layerName : j \in good} |->
            LET last == CHOOSE j \in good :
                            /\ eligibility[j].layerName = name
                            /\ \A k \in good : eligibility[k].layerName = name => k <= j
            IN  eligibility[last].data[1]]

\* cfg = (astro_by_layer or {}).get(layer_name, {})
Cfg(astro_by_layer, layer_name) ==
    IF astro_by_layer # <<>> /\ layer_name \in DOMAIN astro_by_layer[1]
    THEN astro_by_layer[1][layer_name]
    ELSE [dopamineGain |-> <<>>, baseline |-> <<>>]

\* final_score: the global score, mixed with the layer's dopamineGain, in [0, 1]
FinalScore(cfg, a) ==
    LET global_score == QSub(Q(1, 1), QClamp(Q(0, 1), Q(1, 1), a.global_error))
        final_score ==
            IF cfg.dopamineGain # <<>>
            THEN LET local_score == cfg.dopamineGain[1]
                     mix == QPow(local_score, a.mix_exponent)
                 IN  QAdd(QMul(local_score, QSub(Q(1, 1), mix)), QMul(global_score, mix))
            ELSE global_score
    IN  QClamp(Q(0, 1), Q(1, 1), final_score)

\* faulty variant of Baseline: prev_err is looked at before the config
Baseline_prev_err_first(cfg, prev_err, layer_name) ==
    IF prev_err.k = "dict" /\ layer_name \in DOMAIN prev_err.m THEN prev_err.m[layer_name]
    ELSE IF prev_err.k = "float" THEN prev_err.x
    ELSE IF cfg.baseline # <<>> THEN cfg.baseline[1]
    ELSE Q(1, 2)

\* baseline: the config's, else prev_err[layer_name], else a scalar prev_err, else 0.5
Baseline(cfg, prev_err, layer_name) ==
    IF cfg.baseline # <<>> THEN cfg.baseline[1]
    ELSE IF prev_err.k = "dict" /\ layer_name \in DOMAIN prev_err.m THEN prev_err.m[layer_name]
    ELSE IF prev_err.k = "float" THEN prev_err.x
    ELSE Q(1, 2)

\* faulty variant of ClipWeight: the value is stored as computed
ClipWeight_none(val, min_weight, max_weight) == val

\* if val > max_weight: val = max_weight; if val < min_weight: val = min_weight
ClipWeight(val, min_weight, max_weight) ==
    LET v == IF ~QLe(val, max_weight) THEN max_weight ELSE val
    IN  IF ~QLe(min_weight, v) THEN min_weight ELSE v

\* for i in range(n): W[i] = clip(W[i] + default_eta * clean_delta * E[i])
RECURSIVE Weights(_, _, _, _, _, _)
Weights(st0, E, i, n, k0, a) ==
    IF i >= n
    THEN st0
    ELSE Only({LET noise == QMul(QSub(QMul(Q(Rand(st.rng.seed, st.rng.pos), 10), Q(2, 1)),
                                      Q(1, 1)),
                                 k.noise_scale)
                   raw_delta == QAdd(k.centered, noise)
                   clean_delta == QClamp(QSub(Q(0, 1), k.current_cap), k.current_cap, raw_delta)
                   dw == QMul(QMul(a.default_eta, clean_delta), E[i + 1])
                   val == ClipWeight(QAdd(st.W[i + 1], dw), a.min_weight, a.max_weight)
               IN  Weights([W |-> [st.W EXCEPT ![i + 1] = val], rng |-> RandomNext(st.rng)],
                           E, i + 1, n, k, a) : st \in {st0}, k \in {k0}})

\* new_base = baseline + baseline_beta * (final_score - baseline)
NewBase(baseline, final_score, baseline_beta) ==
    QAdd(baseline, QMul(baseline_beta, QSub(final_score, baseline)))

\* failure, dynamic_mult, current_cap, centered, noise_scale and new_base of a layer
Signals(final_score0, baseline0, a) ==
    Only({LET failure == QSub(Q(1, 1), final_score)
              dynamic_mult == QAdd(a.base_scale, QMul(QPow(failure, a.panic_exponent),
                                                      QSub(a.panic_scale, a.base_scale)))
          IN  [centered |-> QMul(QSub(final_score, baseline), dynamic_mult),
               current_cap |-> QAdd(a.min_clamp, QMul(failure, QSub(a.max_clamp, a.min_clamp))),
               noise_scale |-> QMul(Q(1, 1000), dynamic_mult),
               new_base |-> NewBase(baseline, final_score, a.baseline_beta)] :
          final_score \in {final_score0}, baseline \in {baseline0}})

\* the update of one weight layer that has an eligibility list: W, new_base, rng
UpdateLayer(w_layer, elig, a, rng) ==
    LET cfg == Cfg(a.astro_by_layer, w_layer.layerName)
        W == w_layer.data[1]
        n == IF Len(W) <= Len(elig) THEN Len(W) ELSE Len(elig)
    IN  Only({Only({[W |-> st.W, rng |-> st.rng, new_base |-> k.new_base] :
                    st \in {Weights([W |-> W, rng |-> rng], elig, 0, n, k, a)}}) :
              k \in {Signals(FinalScore(cfg, a), Baseline(cfg, a.prev_err, w_layer.layerName), a)}})

\* faulty variant of PassThrough: the layer's weights are cut to the weight bounds
PassThrough_clipped(w_layer, a) ==
    IF w_layer.data = <<>>
    THEN w_layer
    ELSE [w_layer EXCEPT !.data = << [i \in 1..Len(w_layer.data[1]) |->
                                        ClipWeight(w_layer.data[1][i], a.min_weight, a.max_weight)] >>]

\* updated_layers.append(w_layer): the layer is returned as it came
PassThrough(w_layer, a) == w_layer

\* faulty variant of CallerData: W is the caller's list itself
CallerData_alias(data, W) == W

\* the caller's data list after the update: W = list(data) is a copy, the
\* writes go to W only
CallerData(data, W) == data

\* for w_layer in current_weights (from position j)
RECURSIVE Layers(_, _, _, _)
Layers(st0, a, elig_by_layer, j) ==
    IF j > Len(a.current_weights)
    THEN st0
    ELSE LET w_layer == a.current_weights[j]
             layer_name == w_layer.layerName
         IN  IF layer_name = "" \/ w_layer.data = <<>> \/ layer_name \notin DOMAIN elig_by_layer
             THEN Only({Layers([st EXCEPT !.updated_layers = Append(@, PassThrough(w_layer, a))],
                               a, elig_by_layer, j + 1) : st \in {st0}})
             ELSE Only({Layers([updated_layers |->
                                    Append(st.updated_layers,
                                           [layerName |-> layer_name, data |-> << u.W >>]),
                                next_baselines |-> Put(st.next_baselines, layer_name, u.new_base),
                                rng |-> u.rng,
                                current_weights |->
                                    [st.current_weights EXCEPT
                                        ![j].data = << CallerData(w_layer.data[1], u.W) >>]],
                               a, elig_by_layer, j + 1) :
                        st \in {st0},
                        u \in {UpdateLayer(w_layer, elig_by_layer[layer_name], a, st0.rng)}})

\* astrocyte_modulation(current_weights, eligibility, ...): the two results, the
\* random module's generator and the caller's weight layers afterwards
astrocyte_modulation(a, rng) ==
    Only({Layers([updated_layers |-> <<>>, next_baselines |-> EmptyDictValue, rng |-> rng,
                  current_weights |-> a.current_weights],
                 a, elig_by_layer, 1) : elig_by_layer \in {EligByLayer(a.eligibility)}})

(* The callers of astrocyte_modulation *)

\* a layer with list data
Layer(name, list) == [layerName |-> name, data |-> << list >>]

\* the arguments of one call, before it has run; the parameters that are not
\* named here have their default values
Modulation(current_weights, eligibility, global_error, astro_by_layer, prev_err, baseline_beta, min_weight, max_weight) ==
    [current_weights |-> current_weights, eligibility |-> eligibility,
     global_error |-> global_error, astro_by_layer |-> astro_by_layer,
     prev_err |-> prev_err, baseline_beta |-> baseline_beta,
     min_weight |-> min_weight, max_weight |-> max_weight,
     default_eta |-> Q(1, 10), base_scale |-> Q(1, 1), panic_scale |-> Q(100, 1),
     min_clamp |-> Q(1, 20), max_clamp |-> Q(5, 1),
     panic_exponent |-> 8, mix_exponent |-> 5,
     updated_weights |-> <<>>, next_baselines |-> EmptyDictValue, calls |-> 0]

\* weight layers: weights inside and outside the weight bounds, a layer without
\* a name, a layer whose data is not a list
WeightLayers ==
    { Layer("a", <<Q(-11, 1), Q(11, 1)>>), Layer("a", <<Q(0, 1)>>), Layer("b", <<Q(11, 1)>>),
      Layer("", <<Q(11, 1)>>), [layerName |-> "a", data |-> <<>>] }

\* eligibility arguments: shorter and longer than the weights, a name given twice,
\* data that is not a list
Eligibilities ==
    { <<>>,
      << Layer("a", <<Q(1, 1)>>) >>,
      << Layer("a", <<Q(1, 1), Q(-1, 1), Q(1, 1)>>), Layer("b", <<Q(0, 1)>>) >>,
      << Layer("a", <<Q(0, 1), Q(0, 1)>>), Layer("a", <<Q(1, 1)>>) >>,
      << [layerName |-> "a", data |-> <<>>] >> }

\* astro_by_layer: None, or a config for layer "a"
AstroConfigs ==
    { <<>>,
      << ("a" :> [dopamineGain |-> <<Q(1, 1)>>, baseline |-> <<>>]) >>,
      << ("a" :> [dopamineGain |-> <<>>, baseline |-> <<Q(5, 1)>>]) >>,
      << ("a" :> [dopamineGain |-> <<Q(0, 1)>>, baseline |-> <<Q(1, 2)>>]) >> }

\* prev_err: a float, a mapping, or None
PrevErr(k, x, m) == [k |-> k, x |-> x, m |-> m]

\* one call of astrocyte_modulation; global_error inside [0, 1] and above it
InitAstro ==
    /\ \E w \in SeqsUpTo(WeightLayers, MaxLayers), e \in Eligibilities,
          g \in {Q(0, 1), Q(1, 2), Q(3, 2)},
          c \in AstroConfigs,
          p \in {PrevErr("float", Q(1, 2), EmptyDictValue),
                 PrevErr("dict", Q(0, 1), ("a" :> Q(1, 1))),
                 PrevErr("none", Q(0, 1), EmptyDictValue)},
          b \in {<<Q(-10, 1), Q(10, 1)>>, <<Q(-1, 1), Q(0, 1)>>} :
          nm = Modulation(w, e, g, c, p, Q(1, 2), b[1], b[2])
    /\ grng \in [seed : 0..MaxSeed, pos : {0}]
    /\ pc = "call"
    /\ fb = <<>>
    /\ sess = <<>>
    /\ NoDecoder
    /\ NoTransport

\* a sequence of calls, each given the baselines the call before returned
InitAstroCalls ==
    /\ \E g \in {Q(0, 1), Q(1, 2), Q(1, 1)}, c \in AstroConfigs,
          x \in {Q(0, 1), Q(1, 2), Q(1, 1)}, beta \in {Q(0, 1), Q(1, 2), Q(1, 1)} :
          nm = Modulation(<< Layer("a", <<Q(0, 1)>>), Layer("b", <<Q(0, 1), Q(0, 1)>>) >>,
                          << Layer("a", <<Q(1, 1)>>), Layer("b", <<Q(1, 1)>>) >>,
                          g, c, PrevErr("float", x, EmptyDictValue), beta,
                          Q(-10, 1), Q(10, 1))
    /\ grng = [seed |-> 0, pos |-> 0]
    /\ pc = "call"
    /\ fb = <<>>
    /\ sess = <<>>
    /\ NoDecoder
    /\ NoTransport

\* updated_weights, next_baselines = astrocyte_modulation(current_weights, eligibility, ...)
Modulate ==
    /\ pc = "call"
    /\ \E r \in {astrocyte_modulation(nm, grng)} :
          /\ nm' = [nm EXCEPT !.updated_weights = r.updated_layers,
                              !.next_baselines = r.next_baselines,
                              !.current_weights = r.current_weights,
                              !.calls = @ + 1]
          /\ grng' = r.rng
    /\ pc' = "return"
    /\ UNCHANGED <<rows, mapping, out_cmds, by_t, mp, seen, stream, bits, entry, value, delta,
                   fb, sess, abc, ins, rl, fs>>

\* the caller passes next_baselines back as prev_err, with the next global error
NextModulation ==
    /\ pc = "return"
    /\ nm.calls < MaxCalls
    /\ \E g \in {Q(0, 1), Q(1, 2), Q(1, 1)} :
          nm' = [nm EXCEPT !.prev_err = PrevErr("dict", Q(0, 1), nm.next_baselines),
                           !.global_error = g,
                           !.updated_weights = <<>>,
                           !.next_baselines = EmptyDictValue]
    /\ pc' = "call"
    /\ UNCHANGED <<rows, mapping, out_cmds, by_t, mp, seen, stream, bits, entry, value, delta,
                   fb, sess, grng, abc, ins, rl, fs>>

NextAstro == Modulate
NextAstroCalls == Modulate \/ NextModulation

SpecAstro == InitAstro /\ [][NextAstro]_vars
SpecAstroCalls == InitAstroCalls /\ [][NextAstroCalls]_vars

----------------------------------------------------------------------------
(* Claims about the neuromodulation update *)

\* min_weight <= x <= max_weight for the call in c
InWeightBounds(c, x) ==
    /\ c.min_weight.n * x.d <= x.n * c.min_weight.d
    /\ x.n * c.max_weight.d <= c.max_weight.n * x.d

\* the number of weights of layer j that the call in c updates: the shorter of the
\* layer's data and its eligibility list, 0 for a layer that passes through
Updated(c, j) ==
    LET w == c.current_weights[j]
        named == {k \in 1..Len(c.eligibility) :
                     /\ c.eligibility[k].layerName = w.layerName
                     /\ c.eligibility[k].data # <<>>}
    IN  IF w.layerName = "" \/ w.data = <<>> \/ named = {}
        THEN 0
        ELSE LET last == CHOOSE k \in named : \A l \in named : l <= k
                 e == Len(c.eligibility[last].data[1])
             IN  IF Len(w.data[1]) <= e THEN Len(w.data[1]) ELSE e

\* C16 as stated: with min_weight <= max_weight, every weight of every returned
\* layer lies in [min_weight, max_weight], layers without eligibility and weights
\* beyond the eligibility's length included
C16_AllWeightsInBounds ==
    pc = "return"
        => \A j \in 1..Len(nm.updated_weights) :
              nm.updated_weights[j].data # <<>>
                  => \A i \in 1..Len(nm.updated_weights[j].data[1]) :
                        InWeightBounds(nm, nm.updated_weights[j].data[1][i])

\* C16 amended: with min_weight <= max_weight, every weight the call updates (the
\* first min(len(weights), len(eligibility)) weights of a layer with an
\* eligibility list) lies in [min_weight, max_weight]; every other weight is
\* returned as it was given, inside the bounds or not
C16_UpdatedWeightsInBounds ==
    pc = "return"
        => \A j \in 1..Len(nm.updated_weights) :
              nm.updated_weights[j].data # <<>>
                  => \A i \in 1..Len(nm.updated_weights[j].data[1]) :
                        IF i <= Updated(nm, j)
                        THEN InWeightBounds(nm, nm.updated_weights[j].data[1][i])
                        ELSE nm.updated_weights[j].data[1][i] = nm.current_weights[j].data[1][i]

C16_Witness ==
    /\ pc = "return"
    /\ nm.current_weights = << Layer("a", <<Q(-11, 1), Q(11, 1)>>), Layer("b", <<Q(11, 1)>>) >>
    /\ nm.eligibility = << Layer("a", <<Q(1, 1)>>) >>
    /\ nm.min_weight = Q(-10, 1)
    /\ nm.updated_weights[1].data[1][1] = Q(-10, 1)
    /\ nm.updated_weights[1].data[1][2] = Q(11, 1)
    /\ nm.updated_weights[2].data[1][1] = Q(11, 1)

\* C17: a weight layer whose layerName is the name of no eligibility layer comes
\* back at the same position with the same layerName and data, and its name gets
\* no entry in next_baselines
C17_UnmatchedLayerPassesThrough ==
    [][(pc = "call" /\ pc' = "return")
          => /\ Len(nm'.updated_weights) = Len(nm.current_weights)
             /\ \A j \in 1..Len(nm.current_weights) :
                   (\A k \in 1..Len(nm.eligibility) :
                       nm.eligibility[k].layerName # nm.current_weights[j].layerName)
                       => /\ nm'.updated_weights[j] = nm.current_weights[j]
                          /\ nm.current_weights[j].layerName \notin DOMAIN nm'.next_baselines]_vars

C17_Witness ==
    /\ pc = "return"
    /\ nm.current_weights = << Layer("b", <<Q(11, 1)>>), Layer("a", <<Q(0, 1)>>) >>
    /\ nm.eligibility = << Layer("a", <<Q(1, 1)>>) >>
    /\ nm.updated_weights[1] = Layer("b", <<Q(11, 1)>>)
    /\ nm.updated_weights[2].data[1][1] # Q(0, 1)
    /\ DOMAIN nm.next_baselines = {"a"}

\* C18: a call leaves its inputs as they were: the data of every layer of
\* current_weights and eligibility, prev_err and astro_by_layer; the new values
\* are in the returned layers only
C18_InputsNotMutated ==
    [][(pc = "call" /\ pc' = "return")
          => /\ nm'.current_weights = nm.current_weights
             /\ nm'.eligibility = nm.eligibility
             /\ nm'.prev_err = nm.prev_err
             /\ nm'.astro_by_layer = nm.astro_by_layer]_vars

C18_Witness ==
    /\ pc = "return"
    /\ nm.current_weights = << Layer("a", <<Q(0, 1)>>) >>
    /\ nm.eligibility = << Layer("a", <<Q(1, 1), Q(-1, 1), Q(1, 1)>>), Layer("b", <<Q(0, 1)>>) >>
    /\ nm.prev_err.k = "dict"
    /\ nm.astro_by_layer # <<>>
    /\ nm.updated_weights[1].data # nm.current_weights[1].data

\* C19: over calls that each get the baselines the call before returned (first
\* prev_err, every global_error and baseline_beta in [0, 1], dopamineGain in
\* [0, 1], a config baseline of any value), every value of every returned
\* next_baselines lies in [0, 1]
C19_NextBaselinesInUnitRange ==
    \A name \in DOMAIN nm.next_baselines :
        /\ 0 <= nm.next_baselines[name].n
        /\ nm.next_baselines[name].n <= nm.next_baselines[name].d

----------------------------------------------------------------------------
(***************************************************************************)
(* Part 4: ab_sdk/run_session.py, the dispatch of socket events.           *)
(*                                                                         *)
(* A handler is a record [id, raises]: id numbers the registrations of the *)
(* session, raises says whether the callable raises an Exception when it   *)
(* is called.  A payload is a dict, given by its "cycle" number.           *)
(***************************************************************************)

MaxHandlers == 3
MaxEvents == 2

\* the events a session has a dispatcher for, each with its own handler list
EventTypes == {"cycle:update", "io:need", "robot:cmd"}

\* faulty variant of Catches: the call of the handler is not guarded
Catches_none(h) == FALSE

\* except Exception as exc: logger.exception(...): what the handler raises is
\* caught and logged
Catches(h) == TRUE

\* for handler in handlers (from position j): try: handler(payload) except Exception: ...
RECURSIVE Dispatch(_, _, _, _)
Dispatch(handlers, payload, j, st) ==
    IF j > Len(handlers)
    THEN st
    ELSE LET h == handlers[j]
             called == [st EXCEPT !.invoked = Append(@, [handler |-> h.id, payload |-> payload])]
         IN  IF ~h.raises
             THEN Dispatch(handlers, payload, j + 1, called)
             ELSE IF Catches(h)
             THEN Dispatch(handlers, payload, j + 1, [called EXCEPT !.logged = @ + 1])
             ELSE [called EXCEPT !.escaped = TRUE]

\* RunSession(...): empty handler lists, the three dispatchers attached to the socket
InitSession ==
    /\ sess = [handlers |-> [ev \in EventTypes |-> <<>>], registered |-> 0, events |-> 0,
               event |-> <<>>, invoked |-> <<>>, logged |-> 0, escaped |-> FALSE]
    /\ pc = "connected"
    /\ fb = <<>>
    /\ nm = <<>>
    /\ grng = <<>>
    /\ NoDecoder
    /\ NoTransport

\* session.on_cycle_update(handler), on_io_need(handler), on_robot_cmd(handler)
RegisterHandler ==
    /\ sess.registered < MaxHandlers
    /\ \E ev \in EventTypes, raises \in BOOLEAN :
          sess' = [sess EXCEPT !.handlers[ev] = Append(@, [id |-> sess.registered + 1,
                                                           raises |-> raises]),
                               !.registered = @ + 1]
    /\ UNCHANGED <<rows, mapping, out_cmds, by_t, mp, pc, seen, stream, bits, entry, value,
                   delta, fb, nm, grng, abc, ins, rl, fs>>

\* the socket delivers an event: _on_cycle_update(payload), _on_io_need(payload),
\* _on_robot_cmd(payload)
SocketEvent ==
    /\ sess.events < MaxEvents
    /\ \E ev \in EventTypes, payload \in {[cycle |-> 1], [cycle |-> 2]} :
          LET st == Dispatch(sess.handlers[ev], payload, 1,
                             [invoked |-> <<>>, logged |-> 0, escaped |-> FALSE])
          IN  sess' = [sess EXCEPT !.events = @ + 1,
                                   !.event = << [type |-> ev, payload |-> payload] >>,
                                   !.invoked = st.invoked,
                                   !.logged = st.logged,
                                   !.escaped = st.escaped]
    /\ UNCHANGED <<rows, mapping, out_cmds, by_t, mp, pc, seen, stream, bits, entry, value,
                   delta, fb, nm, grng, abc, ins, rl, fs>>

NextSession == RegisterHandler \/ SocketEvent

SpecSession == InitSession /\ [][NextSession]_vars

----------------------------------------------------------------------------
(* Claims about the session *)

\* C20: when a cycle:update, io:need or robot:cmd event comes in, the handlers
\* registered for that event before it came are each called exactly once with
\* the event's payload, in the order of their registration, also after a
\* handler that raised; no exception leaves the dispatcher
C20_EveryHandlerCalledOnceInOrder ==
    [][sess'.events = sess.events + 1
          => LET registered == sess.handlers[sess'.event[1].type]
             IN  /\ sess'.invoked = [j \in 1..Len(registered) |->
                                        [handler |-> registered[j].id,
                                         payload |-> sess'.event[1].payload]]
                 /\ ~sess'.escaped]_vars

C20_Witness ==
    /\ sess.events > 0
    /\ sess.event[1].type = "io:need"
    /\ Len(sess.handlers["io:need"]) = 2
    /\ sess.handlers["io:need"][1].raises
    /\ ~sess.handlers["io:need"][2].raises
    /\ sess.handlers["cycle:update"] # <<>>
    /\ sess.logged = 1
    /\ Len(sess.invoked) = 2
    /\ sess.invoked[2].handler = sess.handlers["io:need"][2].id
    /\ sess.invoked[2].payload = [cycle |-> 2]

----------------------------------------------------------------------------
----------------------------------------------------------------------------
(***************************************************************************)
(* Part 5: ab_sdk/client.py, ABClient and the start of a run.              *)
(*                                                                         *)
(* start() is a sequence of steps of the caller's thread: the HTTP start   *)
(* call, socket.connect, the namespace check with the run:join emit, and   *)
(* the construction of the RunSession.  The socket's receive thread runs   *)
(* beside it from the moment the socket is connected: an event that comes  *)
(* in is given to the handler registered for it at that moment, and is     *)
(* dropped when there is none.                                             *)
(***************************************************************************)

\* largest number of calls of the ABClient entry points
MaxRequests == 2

\* faulty variant of Missing: no argument counts as missing
Missing_never(x) == FALSE

\* `not project_id`, `not input_id`, `not kind`, `not run_id`
Missing(x) == x = ""

\* endpoints.START_RUN / STOP_RUN / IO_STATE / CONTRACT .format(project_id=...)
Endpoint(op, project_id) ==
    CASE op = "start" -> [method |-> "POST", path |-> <<"robot", project_id, "start">>]
      [] op = "stop" -> [method |-> "POST", path |-> <<"robot", project_id, "stop">>]
      [] op = "get_io_state" -> [method |-> "GET", path |-> <<"robot", project_id, "io", "state">>]
      [] op = "get_contract" -> [method |-> "GET", path |-> <<"robot", project_id, "contract">>]

\* rt_info.get("namespace", self.socket_namespace): realtime is an Optional
Namespace(realtime) == IF realtime = <<>> THEN "/ab" ELSE realtime[1]

\* faulty variant of NamespaceConnected: the check of the namespace is left out
NamespaceConnected_any(ns, namespaces) == TRUE

\* `ns not in namespaces` after socket.connect, negated
NamespaceConnected(ns, namespaces) == ns \in namespaces

\* a new ABClient, no call made yet
InitClient ==
    /\ abc = [pc |-> "idle", calls |-> 0, op |-> "", project_id |-> "", exc |-> "",
              http |-> <<>>, run_id |-> "", ns |-> "", namespaces |-> {}, connects |-> 0,
              disconnects |-> 0, emitted |-> <<>>, session |-> 0, registered |-> FALSE,
              cycle_handlers |-> 0, sent |-> 0, dispatched |-> 0, dropped |-> 0,
              unheard |-> 0]
    /\ ins = <<>>
    /\ rl = <<>>
    /\ fs = <<>>
    /\ pc = "client"
    /\ fb = <<>>
    /\ nm = <<>>
    /\ sess = <<>>
    /\ grng = <<>>
    /\ NoDecoder

\* client.stop(project_id), get_io_state(project_id), get_contract(project_id):
\* the request is sent unless project_id is missing; _request raises on an
\* HTTP error
Request ==
    /\ abc.pc \in {"idle", "returned", "raised"}
    /\ abc.calls < MaxRequests
    /\ \E op \in {"stop", "get_io_state", "get_contract"}, project_id \in {"", "p"},
          failed \in BOOLEAN :
          abc' = [abc EXCEPT
                    !.calls = @ + 1, !.op = op, !.project_id = project_id,
                    !.http = IF Missing(project_id) THEN @
                             ELSE Append(@, Endpoint(op, project_id)),
                    !.exc = IF Missing(project_id) THEN "ValueError"
                            ELSE IF failed THEN "HTTPError" ELSE ""]
    /\ UNCHANGED <<rows, mapping, out_cmds, by_t, mp, pc, seen, stream, bits, entry, value,
                   delta, fb, nm, sess, grng, ins, rl, fs>>

\* client.start(project_id) up to the start response: raises ValueError when
\* project_id is missing or the response has no runId
StartPost ==
    /\ abc.pc = "idle"
    /\ abc.calls < MaxRequests
    /\ \E project_id \in {"", "p"}, failed \in BOOLEAN, run_id \in {"", "r1"},
          realtime \in {<<>>, <<"/x">>} :
          abc' = [abc EXCEPT
                    !.calls = @ + 1, !.op = "start", !.project_id = project_id,
                    !.http = IF Missing(project_id) THEN @
                             ELSE Append(@, Endpoint("start", project_id)),
                    !.exc = IF Missing(project_id) THEN "ValueError"
                            ELSE IF failed THEN "HTTPError"
                            ELSE IF Missing(run_id) THEN "ValueError" ELSE "",
                    !.run_id = IF Missing(project_id) \/ failed THEN "" ELSE run_id,
                    !.ns = IF Missing(project_id) \/ failed \/ Missing(run_id) THEN ""
                           ELSE Namespace(realtime),
                    !.pc = IF Missing(project_id) THEN "idle"
                           ELSE IF failed \/ Missing(run_id) THEN "raised" ELSE "posted"]
    /\ UNCHANGED <<rows, mapping, out_cmds, by_t, mp, pc, seen, stream, bits, entry, value,
                   delta, fb, nm, sess, grng, ins, rl, fs>>

\* socket.connect(url, namespaces=[ns], wait=True): raises, or returns with the
\* namespaces the server accepted
StartConnect ==
    /\ abc.pc = "posted"
    /\ \E failed \in BOOLEAN, namespaces \in SUBSET {abc.ns} :
          abc' = [abc EXCEPT
                    !.connects = @ + 1,
                    !.namespaces = IF failed THEN {} ELSE namespaces,
                    !.exc = IF failed THEN "ConnectionError" ELSE "",
                    !.pc = IF failed THEN "raised" ELSE "connected"]
    /\ UNCHANGED <<rows, mapping, out_cmds, by_t, mp, pc, seen, stream, bits, entry, value,
                   delta, fb, nm, sess, grng, ins, rl, fs>>

\* the hard assert on the namespace, then socket.emit(RUN_JOIN_EVENT, {"runId": run_id})
StartJoin ==
    /\ abc.pc = "connected"
    /\ abc' = IF NamespaceConnected(abc.ns, abc.namespaces)
              THEN [abc EXCEPT !.emitted = Append(@, [event |-> "run:join",
                                                      runId |-> abc.run_id]),
                               !.pc = "joined"]
              ELSE [abc EXCEPT !.disconnects = @ + 1, !.namespaces = {},
                               !.exc = "ConnectionError", !.pc = "raised"]
    /\ UNCHANGED <<rows, mapping, out_cmds, by_t, mp, pc, seen, stream, bits, entry, value,
                   delta, fb, nm, sess, grng, ins, rl, fs>>

\* return RunSession(...): __init__ ends with _register_socket_events()
StartReturn ==
    /\ abc.pc = "joined"
    /\ abc' = [abc EXCEPT !.session = 1, !.registered = TRUE, !.pc = "returned"]
    /\ UNCHANGED <<rows, mapping, out_cmds, by_t, mp, pc, seen, stream, bits, entry, value,
                   delta, fb, nm, sess, grng, ins, rl, fs>>

\* RobotLoop(session, ...): __init__ ends with session.on_cycle_update(self._on_cycle_update)
NewRobotLoop ==
    /\ abc.pc = "returned"
    /\ abc.cycle_handlers = 0
    /\ abc' = [abc EXCEPT !.cycle_handlers = 1]
    /\ UNCHANGED <<rows, mapping, out_cmds, by_t, mp, pc, seen, stream, bits, entry, value,
                   delta, fb, nm, sess, grng, ins, rl, fs>>

\* the backend, which has received run:join, sends cycle:update on the run's
\* channel; the receive thread gives it to the socket's handler for the event,
\* _on_cycle_update, which calls every handler in _cycle_handlers
CycleUpdateEvent ==
    /\ abc.emitted # <<>>
    /\ abc.sent < MaxEvents
    /\ abc' = [abc EXCEPT
                 !.sent = @ + 1,
                 !.dropped = IF abc.registered THEN @ ELSE @ + 1,
                 !.unheard = IF abc.registered /\ abc.cycle_handlers = 0 THEN @ + 1 ELSE @,
                 !.dispatched = IF abc.registered /\ abc.cycle_handlers > 0 THEN @ + 1 ELSE @]
    /\ UNCHANGED <<rows, mapping, out_cmds, by_t, mp, pc, seen, stream, bits, entry, value,
                   delta, fb, nm, sess, grng, ins, rl, fs>>

NextClient ==
    \/ Request
    \/ StartPost
    \/ StartConnect
    \/ StartJoin
    \/ StartReturn
    \/ NewRobotLoop
    \/ CycleUpdateEvent

SpecClient == InitClient /\ [][NextClient]_vars

----------------------------------------------------------------------------
(* Claims about the start of a run *)

\* the step emits run:join
EmitsJoin == Len(abc'.emitted) = Len(abc.emitted) + 1

\* C25: in ABClient.start, run:join is emitted only after the HTTP start call
\* gave a runId and the socket's namespace is connected; without a runId no
\* socket connection is attempted; when the namespace is not connected after
\* connect, the socket is disconnected, a connection error is raised, no
\* run:join is emitted and no RunSession is returned
C25_JoinOnlyAfterRunIdAndNamespace ==
    [][/\ EmitsJoin
          => /\ abc.run_id # ""
             /\ abc'.emitted[Len(abc'.emitted)] = [event |-> "run:join", runId |-> abc.run_id]
             /\ Endpoint("start", abc.project_id) \in {abc.http[j] : j \in 1..Len(abc.http)}
             /\ abc.connects = 1
             /\ abc.ns \in abc.namespaces
       /\ (abc'.op = "start" /\ abc'.run_id = "") => abc'.connects = 0
       /\ (abc.pc = "connected" /\ abc.ns \notin abc.namespaces)
          => /\ abc'.disconnects = abc.disconnects + 1
             /\ abc'.exc = "ConnectionError"
             /\ abc'.pc = "raised"
             /\ abc'.emitted = <<>>
             /\ abc'.session = 0]_vars

C25_Witness ==
    /\ abc.pc = "returned"
    /\ abc.ns = "/x"
    /\ abc.emitted = << [event |-> "run:join", runId |-> "r1"] >>
    /\ abc.session = 1

\* C28: every cycle:update the backend sends after it received run:join is
\* dispatched to the session's cycle handlers: none arrives while the socket's
\* handlers or a RobotLoop's handler are not registered yet
C28_NoCycleUpdateBeforeHandlers ==
    abc.dropped = 0 /\ abc.unheard = 0

----------------------------------------------------------------------------
----------------------------------------------------------------------------
(***************************************************************************)
(* Part 6: ab_sdk/input_streamer.py, the InputStreamer.                    *)
(*                                                                         *)
(* A provider is user code: it is known by its name, and whether a call of *)
(* it raises (or returns something that is no dict with bytes) is decided  *)
(* at the call.  Whether socket.emit raises (the namespace is not          *)
(* connected at that moment) is decided at the emit.  The fields count,    *)
(* results and nth observe the run: they are not fields of the object.     *)
(***************************************************************************)

\* largest number of io:need events and of needs in one event
MaxNeedEvents == 2
MaxNeeds == 2

\* self._id_providers.get(input_id), else self._kind_providers.get(kind)
ProviderFor(id_providers, kind_providers, need) ==
    IF id_providers[need.id] # <<>> THEN id_providers[need.id]
    ELSE kind_providers[need.kind]

\* _next_seq(input_id): the incremented counters; the new seq is _seq[input_id]
_next_seq(_seq, input_id) == [_seq EXCEPT ![input_id] = @ + 1]

\* the loop of _handle_io_need from need j on; outcomes[j] tells what happens
\* in the try block of need j
RECURSIVE _handle_io_need(_, _, _, _)
_handle_io_need(st, needs, outcomes, j) ==
    IF j > Len(needs) THEN st
    ELSE LET need == needs[j]
             provider == IF Missing(need.id) THEN <<>>
                         ELSE ProviderFor(st.id_providers, st.kind_providers, need)
             seq == _next_seq(st.seq, need.id)
             chunk == [inputId |-> need.id, kind |-> need.kind, seq |-> seq[need.id],
                       data |-> provider[1], nth |-> st.count[need.id] + 1]
             st1 == CASE provider = <<>>
                           -> [st EXCEPT !.results = Append(@, "skipped")]
                       [] provider # <<>> /\ outcomes[j] = "provider_error"
                           -> [st EXCEPT !.results = Append(@, "logged")]
                       [] provider # <<>> /\ outcomes[j] = "emit_error"
                           -> [st EXCEPT !.seq = seq, !.results = Append(@, "logged")]
                       [] OTHER
                           -> [st EXCEPT !.seq = seq,
                                         !.count[need.id] = @ + 1,
                                         !.chunks = Append(@, chunk),
                                         !.results = Append(@, "sent")]
         IN  _handle_io_need(Only({st1}), needs, outcomes, j + 1)

\* InputStreamer(session), the contract of the session lists the input "a"
InitStreamer ==
    /\ ins = [id_providers |-> [i \in {"a", "b"} |-> <<>>],
              kind_providers |-> [k \in {"Image"} |-> <<>>],
              io_inputs |-> [i \in {"a", "b"} |-> IF i = "a" THEN <<"Audio">> ELSE <<>>],
              seq |-> [i \in {"a", "b"} |-> 0],
              count |-> [i \in {"a", "b"} |-> 0],
              events |-> 0, needs |-> <<>>, outcomes |-> <<>>, results |-> <<>>,
              chunks |-> <<>>,
              last |-> [call |-> "", id |-> "", kind |-> "", exc |-> ""]]
    /\ abc = <<>>
    /\ rl = <<>>
    /\ fs = <<>>
    /\ pc = "streamer"
    /\ fb = <<>>
    /\ nm = <<>>
    /\ sess = <<>>
    /\ grng = <<>>
    /\ NoDecoder

\* register_input(input_id, kind, provider); provider <<>> is not callable
RegisterInput ==
    /\ \E input_id \in {"", "a", "b"}, kind \in {"", "Image"}, provider \in {<<>>, <<"p1">>} :
          ins' = IF Missing(input_id) \/ provider = <<>>
                 THEN [ins EXCEPT !.last = [call |-> "register_input", id |-> input_id,
                                            kind |-> kind, exc |-> "ValueError"]]
                 ELSE [ins EXCEPT !.id_providers[input_id] = provider,
                                  !.io_inputs[input_id] = IF @ = <<>> THEN <<kind>> ELSE @,
                                  !.last = [call |-> "register_input", id |-> input_id,
                                            kind |-> kind, exc |-> ""]]
    /\ UNCHANGED <<rows, mapping, out_cmds, by_t, mp, pc, seen, stream, bits, entry, value,
                   delta, fb, nm, sess, grng, abc, rl, fs>>

\* register_kind(kind, provider)
RegisterKind ==
    /\ \E kind \in {"", "Image"}, provider \in {<<>>, <<"p2">>} :
          ins' = IF Missing(kind) \/ provider = <<>>
                 THEN [ins EXCEPT !.last = [call |-> "register_kind", id |-> "",
                                            kind |-> kind, exc |-> "ValueError"]]
                 ELSE [ins EXCEPT !.kind_providers[kind] = provider,
                                  !.last = [call |-> "register_kind", id |-> "",
                                            kind |-> kind, exc |-> ""]]
    /\ UNCHANGED <<rows, mapping, out_cmds, by_t, mp, pc, seen, stream, bits, entry, value,
                   delta, fb, nm, sess, grng, abc, rl, fs>>

\* the session gives an io:need event to _handle_io_need(payload)
IoNeed ==
    /\ ins.events < MaxNeedEvents
    /\ \E n \in 0..MaxNeeds :
          \E needs \in [1..n -> [id : {"", "a", "b"}, kind : {"Image"}]],
             outcomes \in [1..n -> {"ok", "provider_error", "emit_error"}] :
             \E st \in {_handle_io_need([ins EXCEPT !.chunks = <<>>, !.results = <<>>],
                                        needs, outcomes, 1)} :
                ins' = [st EXCEPT !.events = @ + 1, !.needs = needs, !.outcomes = outcomes]
    /\ UNCHANGED <<rows, mapping, out_cmds, by_t, mp, pc, seen, stream, bits, entry, value,
                   delta, fb, nm, sess, grng, abc, rl, fs>>

NextStreamer == RegisterInput \/ RegisterKind \/ IoNeed

SpecStreamer == InitStreamer /\ [][NextStreamer]_vars

\* the entry points of a program: an ABClient, and after start() returned its
\* RunSession, an InputStreamer for that session
InitEntry ==
    /\ abc = [pc |-> "idle", calls |-> 0, op |-> "", project_id |-> "", exc |-> "",
              http |-> <<>>, run_id |-> "", ns |-> "", namespaces |-> {}, connects |-> 0,
              disconnects |-> 0, emitted |-> <<>>, session |-> 0, registered |-> FALSE,
              cycle_handlers |-> 0, sent |-> 0, dispatched |-> 0, dropped |-> 0,
              unheard |-> 0]
    /\ ins = [id_providers |-> [i \in {"a", "b"} |-> <<>>],
              kind_providers |-> [k \in {"Image"} |-> <<>>],
              io_inputs |-> [i \in {"a", "b"} |-> IF i = "a" THEN <<"Audio">> ELSE <<>>],
              seq |-> [i \in {"a", "b"} |-> 0],
              count |-> [i \in {"a", "b"} |-> 0],
              events |-> 0, needs |-> <<>>, outcomes |-> <<>>, results |-> <<>>,
              chunks |-> <<>>,
              last |-> [call |-> "", id |-> "", kind |-> "", exc |-> ""]]
    /\ rl = <<>>
    /\ fs = <<>>
    /\ pc = "entry"
    /\ fb = <<>>
    /\ nm = <<>>
    /\ sess = <<>>
    /\ grng = <<>>
    /\ NoDecoder

NextEntry ==
    \/ Request
    \/ StartPost
    \/ StartConnect
    \/ StartJoin
    \/ StartReturn
    \/ abc.session = 1 /\ RegisterInput
    \/ abc.session = 1 /\ RegisterKind

SpecEntry == InitEntry /\ [][NextEntry]_vars

----------------------------------------------------------------------------
(* Claims about the entry points and the input streamer *)

\* the step is a call of an ABClient entry point with an empty project_id
EmptyProjectCall == abc'.calls = abc.calls + 1 /\ abc'.project_id = ""

\* the step is a register_input call with an empty input_id, or a
\* register_kind call with an empty kind, that the state shows
EmptyRegisterCall ==
    /\ ins'.last # ins.last
    /\ \/ ins'.last.call = "register_input" /\ ins'.last.id = ""
       \/ ins'.last.call = "register_kind" /\ ins'.last.kind = ""

\* C21: an entry point that needs an identifier fails with a validation error
\* before any side effect when the identifier is empty: start, stop,
\* get_io_state and get_contract send no HTTP request (and start opens no
\* socket), register_input and register_kind leave the provider tables and
\* the session's io_inputs as they are
C21_EmptyIdentifierFailsFast ==
    [][/\ EmptyProjectCall
          => /\ abc'.exc = "ValueError"
             /\ abc'.http = abc.http
             /\ abc'.connects = abc.connects
             /\ abc'.emitted = abc.emitted
             /\ abc'.session = abc.session
       /\ EmptyRegisterCall
          => /\ ins'.last.exc = "ValueError"
             /\ ins'.id_providers = ins.id_providers
             /\ ins'.kind_providers = ins.kind_providers
             /\ ins'.io_inputs = ins.io_inputs]_vars

C21_Witness ==
    /\ abc.op = "get_contract"
    /\ abc.project_id = ""
    /\ abc.exc = "ValueError"
    /\ Len(abc.http) = 1
    /\ ins.last = [call |-> "register_input", id |-> "", kind |-> "Image", exc |-> "ValueError"]
    /\ ins.kind_providers["Image"] = <<"p2">>
    /\ ins.id_providers["b"] = <<"p1">>

\* C26: over the io:need events one InputStreamer handles, the io:chunk events
\* emitted for an input id carry the seq numbers 1, 2, 3, ... in emission
\* order, per input id, also when provider calls fail or emits raise; the
\* provider of the input id is preferred over the provider of its kind; a
\* failing provider does not stop the later needs of the event
C26_SeqWithoutGapsAndIdProviderFirst ==
    [][ins'.events = ins.events + 1
          => /\ \A c \in 1..Len(ins'.chunks) :
                   /\ ins'.chunks[c].seq = ins'.chunks[c].nth
                   /\ ins'.chunks[c].data =
                         IF ins.id_providers[ins'.chunks[c].inputId] # <<>>
                         THEN ins.id_providers[ins'.chunks[c].inputId][1]
                         ELSE ins.kind_providers[ins'.chunks[c].kind][1]
             /\ Len(ins'.results) = Len(ins'.needs)
             /\ \A j \in 1..Len(ins'.needs) :
                   (/\ ins'.needs[j].id # ""
                    /\ \/ ins.id_providers[ins'.needs[j].id] # <<>>
                       \/ ins.kind_providers[ins'.needs[j].kind] # <<>>
                    /\ ins'.outcomes[j] = "ok")
                   => ins'.results[j] = "sent"]_vars

----------------------------------------------------------------------------
----------------------------------------------------------------------------
(***************************************************************************)
(* Part 7: ab_sdk/contract_scaffold.py, the policies directory.            *)
(*                                                                         *)
(* A file is an Optional: <<>> when it does not exist, else <<content>>.   *)
(* A contract is None (<<>>) or <<[gamma, runId]>>, gamma an Optional int; *)
(* the other constants and the io lists are carried like gamma and are     *)
(* left out.  A digest is known by what was hashed.                        *)
(***************************************************************************)

\* largest number of syncs and of edits by the user
MaxSyncs == 2
MaxEdits == 2

\* _stable_contract_view(contract): the run-specific fields are stripped, a
\* missing gamma becomes 64
_stable_contract_view(contract) ==
    [gamma |-> IF contract = <<>> \/ contract[1].gamma = <<>> THEN 64
               ELSE contract[1].gamma[1]]

\* _sha256_hex(_json_bytes(view))
_sha256_hex(view) == <<"sha256", view>>

\* faulty variant of _exists: no file is found
_exists_never(files, path) == FALSE

\* _exists(path)
_exists(files, path) == files[path] # <<>>

\* sync_policies_from_contract(contract, policies_dir): the files afterwards
\* and the ScaffoldResult
sync_policies_from_contract(contract, files) ==
    LET view == _stable_contract_view(contract)
        sha == _sha256_hex(view)
        created_reward == ~_exists(files, "reward_policy.py")
        created_dev == ~_exists(files, "error_deviation_policy.py")
    IN  [files |-> [files EXCEPT
                       !["_contract.json"] = << [json |-> view] >>,
                       !["_contract.py"] = << [py |-> view, CONTRACT_SHA256 |-> sha] >>,
                       !["_contract.sha256"] = << sha >>,
                       !["reward_policy.py"] =
                           IF created_reward THEN <<"default reward policy">> ELSE @,
                       !["error_deviation_policy.py"] =
                           IF created_dev THEN <<"default deviation policy">> ELSE @],
         result |-> [wrote_contract |-> TRUE,
                     created_reward_policy |-> created_reward,
                     created_deviation_policy |-> created_dev,
                     sha256 |-> sha]]

\* an empty policies directory, no sync made yet
InitScaffold ==
    /\ fs = [files |-> [f \in {"_contract.json", "_contract.py", "_contract.sha256",
                               "reward_policy.py", "error_deviation_policy.py"} |-> <<>>],
             syncs |-> 0, edits |-> 0, contract |-> <<>>, result |-> <<>>]
    /\ abc = <<>>
    /\ ins = <<>>
    /\ rl = <<>>
    /\ pc = "scaffold"
    /\ fb = <<>>
    /\ nm = <<>>
    /\ sess = <<>>
    /\ grng = <<>>
    /\ NoDecoder

\* client.sync_policies(project_id): get_contract, then sync_policies_from_contract
SyncPolicies ==
    /\ fs.syncs < MaxSyncs
    /\ \E contract \in {<<>>} \cup {<< [gamma |-> g, runId |-> r] >> :
                                     g \in {<<>>, <<8>>}, r \in {"r1", "r2"}} :
          \E r \in {sync_policies_from_contract(contract, fs.files)} :
             fs' = [fs EXCEPT !.files = r.files, !.result = <<r.result>>,
                              !.contract = <<contract>>, !.syncs = @ + 1]
    /\ UNCHANGED <<rows, mapping, out_cmds, by_t, mp, pc, seen, stream, bits, entry, value,
                   delta, fb, nm, sess, grng, abc, ins, rl>>

\* the user writes, or removes, one of the two policy files
UserEdit ==
    /\ fs.edits < MaxEdits
    /\ \E f \in {"reward_policy.py", "error_deviation_policy.py"},
          text \in {<<>>, <<"my policy">>, <<"my other policy">>} :
          fs' = [fs EXCEPT !.files[f] = text, !.edits = @ + 1]
    /\ UNCHANGED <<rows, mapping, out_cmds, by_t, mp, pc, seen, stream, bits, entry, value,
                   delta, fb, nm, sess, grng, abc, ins, rl>>

NextScaffold == SyncPolicies \/ UserEdit

SpecScaffold == InitScaffold /\ [][NextScaffold]_vars

----------------------------------------------------------------------------
(* Claims about the policies directory *)

\* gamma as the contract of the last sync gives it
SyncedGamma ==
    IF fs'.contract[1] = <<>> \/ fs'.contract[1][1].gamma = <<>> THEN 64
    ELSE fs'.contract[1][1].gamma[1]

\* C22: over any syncs and user edits, a sync leaves the content of an
\* existing reward_policy.py and error_deviation_policy.py as it is, rewrites
\* _contract.json, _contract.py and _contract.sha256 from the contract it was
\* given, and reports created_reward_policy / created_deviation_policy as
\* true exactly when that file did not exist before the call
C22_SyncKeepsPoliciesRewritesContract ==
    [][fs'.syncs = fs.syncs + 1
          => /\ \A f \in {"reward_policy.py", "error_deviation_policy.py"} :
                   /\ fs.files[f] # <<>> => fs'.files[f] = fs.files[f]
                   /\ fs'.files[f] # <<>>
             /\ fs'.files["_contract.json"] = << [json |-> [gamma |-> SyncedGamma]] >>
             /\ fs'.files["_contract.sha256"] = << <<"sha256", [gamma |-> SyncedGamma]>> >>
             /\ fs'.files["_contract.py"] =
                   << [py |-> [gamma |-> SyncedGamma],
                       CONTRACT_SHA256 |-> <<"sha256", [gamma |-> SyncedGamma]>>] >>
             /\ fs'.result[1].created_reward_policy = (fs.files["reward_policy.py"] = <<>>)
             /\ fs'.result[1].created_deviation_policy
                   = (fs.files["error_deviation_policy.py"] = <<>>)]_vars

C22_Witness ==
    /\ fs.syncs = 2
    /\ fs.edits = 2
    /\ fs.files["reward_policy.py"] = <<"my policy">>
    /\ fs.files["error_deviation_policy.py"] = <<"default deviation policy">>
    /\ fs.files["_contract.json"] = << [json |-> [gamma |-> 8]] >>
    /\ fs.result[1].created_deviation_policy
    /\ ~fs.result[1].created_reward_policy

----------------------------------------------------------------------------
----------------------------------------------------------------------------
(***************************************************************************)
(* Part 3, continued: the baseline of a layer over a sequence of calls.    *)
(***************************************************************************)

\* a sequence of calls as in InitAstroCalls, the first with prev_err a float,
\* a mapping that has layer "a" only, or None
InitAstroBaselines ==
    /\ \E g \in {Q(0, 1), Q(1, 2)}, c \in AstroConfigs, beta \in {Q(0, 1), Q(1, 2)},
          p \in {PrevErr("float", Q(0, 1), EmptyDictValue),
                 PrevErr("float", Q(1, 1), EmptyDictValue),
                 PrevErr("dict", Q(0, 1), ("a" :> Q(1, 1))),
                 PrevErr("none", Q(0, 1), EmptyDictValue)} :
          nm = Modulation(<< Layer("a", <<Q(0, 1)>>), Layer("b", <<Q(0, 1), Q(0, 1)>>) >>,
                          << Layer("a", <<Q(1, 1)>>), Layer("b", <<Q(1, 1)>>) >>,
                          g, c, p, beta, Q(-10, 1), Q(10, 1))
    /\ grng = [seed |-> 0, pos |-> 0]
    /\ pc = "call"
    /\ fb = <<>>
    /\ sess = <<>>
    /\ NoDecoder
    /\ NoTransport

SpecAstroBaselines == InitAstroBaselines /\ [][NextAstroCalls]_vars

----------------------------------------------------------------------------
(* Claims about the baseline *)

\* layer j of the call in c is updated: it has a name, list data, and an
\* eligibility layer of its name with list data
IsUpdated(c, j) ==
    /\ c.current_weights[j].layerName # ""
    /\ c.current_weights[j].data # <<>>
    /\ \E k \in 1..Len(c.eligibility) :
          /\ c.eligibility[k].layerName = c.current_weights[j].layerName
          /\ c.eligibility[k].data # <<>>

\* the baseline the claim names for a layer of the call in c
ClaimedBaseline(c, name) ==
    IF c.astro_by_layer # <<>> /\ name \in DOMAIN c.astro_by_layer[1]
       /\ c.astro_by_layer[1][name].baseline # <<>>
    THEN c.astro_by_layer[1][name].baseline[1]
    ELSE IF c.prev_err.k = "dict"
    THEN IF name \in DOMAIN c.prev_err.m THEN c.prev_err.m[name] ELSE Q(1, 2)
    ELSE IF c.prev_err.k = "float" THEN c.prev_err.x
    ELSE Q(1, 2)

\* C23: the baseline of an updated layer is the config's baseline when there
\* is one, else prev_err[layerName] when prev_err is a mapping with that
\* layer, else a scalar prev_err, else 0.5; so with no config baseline and the
\* last call's next_baselines passed back, the baseline of call k+1 is the
\* next_baseline call k recorded for the layer.  The baseline is seen through
\* the new baseline the call records, baseline + baseline_beta * (final_score
\* - baseline)
C23_BaselineResolutionOrder ==
    [][nm'.calls = nm.calls + 1
          => \A j \in 1..Len(nm.current_weights) :
                IsUpdated(nm, j)
                => LET name == nm.current_weights[j].layerName
                   IN  /\ name \in DOMAIN nm'.next_baselines
                       /\ nm'.next_baselines[name]
                             = NewBase(ClaimedBaseline(nm, name),
                                       FinalScore(Cfg(nm.astro_by_layer, name), nm),
                                       nm.baseline_beta)]_vars

\* a second call that took the baseline of layer "b" from the first call's
\* next_baselines, which differs from the config's baseline, the scalar and 0.5
C23_Witness ==
    /\ nm.calls = 2
    /\ pc = "return"
    /\ nm.prev_err.k = "dict"
    /\ "b" \in DOMAIN nm.prev_err.m
    /\ nm.prev_err.m["b"] = Q(3, 4)
    /\ nm.baseline_beta = Q(1, 2)
    /\ nm.astro_by_layer # <<>>
    /\ nm.astro_by_layer[1]["a"].baseline = <<Q(5, 1)>>
    /\ nm.next_baselines["b"] = NewBase(Q(3, 4), Q(1, 2), Q(1, 2))

----------------------------------------------------------------------------
----------------------------------------------------------------------------
(***************************************************************************)
(* Part 8: ab_sdk/robot_loop.py, the RobotLoop.                            *)
(*                                                                         *)
(* run_forever and stop are called from the threads of the program; each   *)
(* worker thread started by run_forever walks its loop step by step.       *)
(* thread.join(timeout=5.0) returns when the worker has ended or when the  *)
(* time is over, whichever comes first.  The decoder plugin, the command   *)
(* executor and the state provider are user code: what a call of them does *)
(* is decided at the call.  The fields quiet and late observe the run.     *)
(***************************************************************************)

\* largest number of cycle:update events, of entries in telemetry["outputs"],
\* of run_forever calls that start a worker, and of robot:state events
MaxCycles == 2
MaxOutputs == 2
MaxRuns == 2
MaxStates == 2

\* the matrices built from telemetry["outputs"] from entry j on; an entry that
\* is no triple is skipped, a t_step outside the matrix raises IndexError
RECURSIVE OutputMatrices(_, _, _, _, _)
OutputMatrices(m, outputs, gamma, output_n, j) ==
    IF j > Len(outputs) THEN [raised |-> FALSE, m |-> m]
    ELSE IF Len(outputs[j]) # 3 THEN OutputMatrices(m, outputs, gamma, output_n, j + 1)
    ELSE LET t_step == outputs[j][1]
             out_id == outputs[j][2]
             row_bits == outputs[j][3]
             m1 == IF out_id \in DOMAIN m THEN m
                   ELSE Put(m, out_id, [t \in 0..(gamma - 1) |-> [i \in 1..output_n |-> 0]])
         IN  IF t_step >= gamma THEN [raised |-> TRUE, m |-> m1]
             ELSE OutputMatrices(
                      [m1 EXCEPT ![out_id][t_step] =
                          [i \in 1..output_n |->
                              IF i <= Len(row_bits) THEN (IF row_bits[i] # 0 THEN 1 ELSE 0) ELSE @[i]]],
                      outputs, gamma, output_n, j + 1)

\* faulty variant of CommandGiven: None is taken for a command
CommandGiven_always(command) == TRUE

\* `if command is not None`
CommandGiven(command) == command # <<>>

\* _on_cycle_update(telemetry): decoded is what decoder.decode does (raises, or
\* returns the Optional command), executes tells whether the executor returns
_on_cycle_update(loop, outputs, decoded, executes) ==
    IF loop.decoder = <<>>
    THEN [loop EXCEPT !.matrices = <<>>, !.decode = "not called", !.command = <<>>,
                      !.executor_calls = 0, !.escaped = FALSE]
    ELSE LET built == OutputMatrices(EmptyDictValue, outputs, loop.gamma, loop.output_n, 1)
         IN  IF built.raised
             THEN [loop EXCEPT !.matrices = <<>>, !.decode = "not called", !.command = <<>>,
                               !.executor_calls = 0, !.escaped = TRUE]
             ELSE IF decoded.raises
             THEN [loop EXCEPT !.matrices = <<built.m>>, !.decode = "raised",
                               !.command = <<>>, !.executor_calls = 0,
                               !.decoder_errors = @ + 1, !.escaped = FALSE]
             ELSE [loop EXCEPT !.matrices = <<built.m>>, !.decode = "returned",
                               !.command = decoded.command,
                               !.executor_calls = IF CommandGiven(decoded.command) THEN 1 ELSE 0,
                               !.decoder_errors = IF CommandGiven(decoded.command) /\ ~executes
                                                  THEN @ + 1 ELSE @,
                               !.escaped = FALSE]

\* RobotLoop(session, state_provider, command_executor) on a session with
\* gamma 2 and outputWindowN 2; two threads of the program
InitLoop ==
    /\ rl = [decoder |-> <<>>, gamma |-> 2, output_n |-> 2, cycles |-> 0,
             matrices |-> <<>>, decode |-> "", command |-> <<>>, executor_calls |-> 0,
             decoder_errors |-> 0, escaped |-> FALSE,
             running |-> FALSE, thread |-> <<>>, workers |-> <<>>,
             callers |-> [u \in {"t1", "t2"} |-> "idle"],
             states |-> 0, quiet |-> FALSE, late |-> 0]
    /\ abc = <<>>
    /\ ins = <<>>
    /\ fs = <<>>
    /\ pc = "loop"
    /\ fb = <<>>
    /\ nm = <<>>
    /\ sess = <<>>
    /\ grng = <<>>
    /\ NoDecoder

\* session.set_decoder(decoder)
SetDecoder ==
    /\ \E decoder \in {<<>>, <<"decoder">>} : rl' = [rl EXCEPT !.decoder = decoder]
    /\ UNCHANGED <<rows, mapping, out_cmds, by_t, mp, pc, seen, stream, bits, entry, value,
                   delta, fb, nm, sess, grng, abc, ins, fs>>

\* the session gives a cycle:update event to RobotLoop._on_cycle_update
CycleUpdate ==
    /\ rl.cycles < MaxCycles
    /\ \E n \in 0..MaxOutputs :
          \E outputs \in [1..n -> {<<0, "o1", <<1>>>>, <<1, "o1", <<0, 1, 1>>>>,
                                   <<1, "o2", <<1>>>>, <<2, "o1", <<1>>>>, <<0, "o1">>}],
             decoded \in {[raises |-> TRUE, command |-> <<>>],
                          [raises |-> FALSE, command |-> <<>>],
                          [raises |-> FALSE, command |-> <<"cmd">>]},
             executes \in BOOLEAN :
             \E r \in {_on_cycle_update(rl, outputs, decoded, executes)} :
                rl' = [r EXCEPT !.cycles = @ + 1]
    /\ UNCHANGED <<rows, mapping, out_cmds, by_t, mp, pc, seen, stream, bits, entry, value,
                   delta, fb, nm, sess, grng, abc, ins, fs>>

\* thread u calls run_forever(): returns at once when already running, else
\* sets _running, starts a worker and blocks in `while self._running`
RunForever ==
    /\ \E u \in DOMAIN rl.callers :
          /\ rl.callers[u] = "idle"
          /\ Len(rl.workers) < MaxRuns
          /\ rl' = IF rl.running THEN rl
                   ELSE [rl EXCEPT !.running = TRUE,
                                   !.workers = Append(@, "check"),
                                   !.thread = <<Len(rl.workers) + 1>>,
                                   !.callers[u] = "blocked",
                                   !.quiet = FALSE]
    /\ UNCHANGED <<rows, mapping, out_cmds, by_t, mp, pc, seen, stream, bits, entry, value,
                   delta, fb, nm, sess, grng, abc, ins, fs>>

\* thread u, blocked in run_forever, sees _running false and goes to `finally`
RunForeverWake ==
    /\ \E u \in DOMAIN rl.callers :
          /\ rl.callers[u] = "blocked"
          /\ ~rl.running
          /\ rl' = [rl EXCEPT !.callers[u] = "finally"]
    /\ UNCHANGED <<rows, mapping, out_cmds, by_t, mp, pc, seen, stream, bits, entry, value,
                   delta, fb, nm, sess, grng, abc, ins, fs>>

\* thread u calls stop(), or reaches it in the `finally` of run_forever:
\* returns at once when not running, else clears _running and joins the thread
StopBegin ==
    /\ \E u \in DOMAIN rl.callers :
          /\ rl.callers[u] \in {"idle", "finally"}
          /\ rl' = IF ~rl.running THEN [rl EXCEPT !.callers[u] = "idle"]
                   ELSE IF rl.thread = <<>>
                   THEN [rl EXCEPT !.running = FALSE, !.callers[u] = "idle", !.quiet = TRUE]
                   ELSE [rl EXCEPT !.running = FALSE, !.callers[u] = "joining"]
    /\ UNCHANGED <<rows, mapping, out_cmds, by_t, mp, pc, seen, stream, bits, entry, value,
                   delta, fb, nm, sess, grng, abc, ins, fs>>

\* self._thread.join(timeout=5.0) returns, the worker ended or not; stop()
\* clears _thread and returns
StopReturn ==
    /\ \E u \in DOMAIN rl.callers :
          /\ rl.callers[u] = "joining"
          /\ rl' = [rl EXCEPT !.thread = <<>>, !.callers[u] = "idle",
                              !.quiet = ~rl.running]
    /\ UNCHANGED <<rows, mapping, out_cmds, by_t, mp, pc, seen, stream, bits, entry, value,
                   delta, fb, nm, sess, grng, abc, ins, fs>>

\* a worker evaluates `while self._running`
WorkerCheck ==
    /\ \E w \in 1..Len(rl.workers) :
          /\ rl.workers[w] = "check"
          /\ rl' = [rl EXCEPT !.workers[w] = IF rl.running THEN "sending" ELSE "ended"]
    /\ UNCHANGED <<rows, mapping, out_cmds, by_t, mp, pc, seen, stream, bits, entry, value,
                   delta, fb, nm, sess, grng, abc, ins, fs>>

\* _send_robot_state(): the state provider returns and robot:state is
\* emitted, or the provider raises and the exception is logged
WorkerSend ==
    /\ \E w \in 1..Len(rl.workers), provided \in BOOLEAN :
          /\ rl.workers[w] = "sending"
          /\ rl.states < MaxStates
          /\ rl' = IF provided
                   THEN [rl EXCEPT !.workers[w] = "sleeping", !.states = @ + 1,
                                   !.late = IF rl.quiet THEN @ + 1 ELSE @]
                   ELSE [rl EXCEPT !.workers[w] = "sleeping"]
    /\ UNCHANGED <<rows, mapping, out_cmds, by_t, mp, pc, seen, stream, bits, entry, value,
                   delta, fb, nm, sess, grng, abc, ins, fs>>

\* time.sleep(sleep_time) returns
WorkerSleep ==
    /\ \E w \in 1..Len(rl.workers) :
          /\ rl.workers[w] = "sleeping"
          /\ rl' = [rl EXCEPT !.workers[w] = "check"]
    /\ UNCHANGED <<rows, mapping, out_cmds, by_t, mp, pc, seen, stream, bits, entry, value,
                   delta, fb, nm, sess, grng, abc, ins, fs>>

NextLoopCycles == SetDecoder \/ CycleUpdate

NextLoopWorkers ==
    \/ RunForever
    \/ RunForeverWake
    \/ StopBegin
    \/ StopReturn
    \/ WorkerCheck
    \/ WorkerSend
    \/ WorkerSleep

SpecLoopCycles == InitLoop /\ [][NextLoopCycles]_vars

SpecLoopWorkers == InitLoop /\ [][NextLoopWorkers]_vars

----------------------------------------------------------------------------
(* Claims about the robot loop *)

\* C24: for every cycle:update given to RobotLoop, the command executor is
\* called at most once, and only when a decoder is attached, its decode call
\* returned and the command is not None; an exception of the decoder is
\* caught and logged and the executor is not called for that cycle (the
\* witness shows a later cycle update being processed)
C24_ExecutorOnlyAfterDecodedCommand ==
    [][rl'.cycles = rl.cycles + 1
          => /\ rl'.executor_calls <= 1
             /\ rl'.executor_calls = 1
                => /\ rl.decoder # <<>>
                   /\ rl'.decode = "returned"
                   /\ rl'.command # <<>>
             /\ rl'.decode = "raised"
                => /\ rl'.executor_calls = 0
                   /\ rl'.decoder_errors = rl.decoder_errors + 1
                   /\ ~rl'.escaped]_vars

\* the second cycle update is decoded and executed after the decoder raised
\* in the first
C24_Witness ==
    /\ rl.cycles = 2
    /\ rl.decoder_errors = 1
    /\ rl.decode = "returned"
    /\ rl.command = <<"cmd">>
    /\ rl.executor_calls = 1
    /\ rl.matrices = << ("o1" :> [t \in 0..1 |-> IF t = 1 THEN <<0, 1>> ELSE <<1, 0>>]) >>

\* C27: over any interleaving of run_forever and stop calls from different
\* threads, at most one worker is sending robot:state at any time, and after
\* stop has returned, with no later run_forever call, no robot:state event is
\* emitted
C27_OneWorkerAndSilenceAfterStop ==
    /\ Cardinality({w \in 1..Len(rl.workers) : rl.workers[w] = "sending"}) <= 1
    /\ rl.late = 0

----------------------------------------------------------------------------
----------------------------------------------------------------------------
(***************************************************************************)
(* Part 1, continued: the rows of one call in every arrival order.         *)
(***************************************************************************)

\* largest number of rows of a call whose arrival orders are compared
MaxArrivals == 3

\* one call of decode_stream_rows: rows that share a timestep, an id and a
\* channel, rows whose "t" is a float or a str, a row that is no dict
InitArrivals ==
    /\ rows \in SeqsUpTo({ Row(PInt(1), "A", BitList(<<1, 0>>)),
                           Row(PInt(1), "A", BitList(<<1, 1, 1, 0>>)),
                           Row(PFloat(15), "B", BitList(<<1, 0>>)),
                           Row(PStr(<<" ", "2">>), "B", BitList(<<0, 1>>)),
                           Row(PInt(0), "A", BitList(<<0, 1>>)),
                           NonDictRow }, MaxArrivals)
    /\ mapping \in { << TypedItem(MappingEntry("A", "c")),
                        TypedItem([MappingEntry("B", "c") EXCEPT !.invert = TRUE]) >>,
                     << TypedItem(MappingEntry("A", "c")),
                        TypedItem([MappingEntry("A", "d") EXCEPT !.scheme = <<"addition">>]),
                        TypedItem(MappingEntry("B", "d")) >> }
    /\ stream = <<>>
    /\ pc = "call"
    /\ NoResults
    /\ NoUnitCall
    /\ NoUtilities

SpecArrivals == InitArrivals /\ [][NextDecode]_vars

----------------------------------------------------------------------------
(* Claims about the arrival order *)

\* the orders of n rows
Orders(n) == {p \in [1..n -> 1..n] : \A i, j \in 1..n : p[i] = p[j] => i = j}

\* the rows rs in the order p
Permuted(rs, p) == [i \in 1..Len(rs) |-> rs[p[i]]]

\* C29: the result of decode_stream_rows does not depend on the arrival order
\* of the rows: every permutation of the rows, with the same mapping, gives
\* the same timesteps in the same order and the same channel-to-delta map for
\* each timestep (deltas are exact numbers here)
C29_ArrivalOrderDoesNotMatter ==
    pc = "return" =>
        \A p \in Orders(Len(rows)) :
            decode_stream_rows(Permuted(rows, p), mapping) = out_cmds

\* three rows that came in descending order of t, two of them adding to the
\* same channel at the same timestep
C29_Witness ==
    /\ pc = "return"
    /\ Len(rows) = 3
    /\ RowT(rows[1]) = <<2>>
    /\ RowT(rows[2]) = <<1>> /\ rows[2].id = "B"
    /\ RowT(rows[3]) = <<1>> /\ rows[3].id = "A"
    /\ Len(out_cmds) = 2
    /\ out_cmds[1].t = 1
    /\ DOMAIN out_cmds[1].deltas = {"c", "d"}
    /\ out_cmds[1].deltas["d"] = 2
    /\ out_cmds[2].t = 2
-----------------------------------------------------------------------------
-----------------------------------------------------------------------------
(***************************************************************************)
(* Part 4, continued: ab_sdk/run_session.py, send_feedback_raster.         *)
(*                                                                         *)
(* sess is the session that sends: gamma and feedback_n as the constructor *)
(* read them from the contract, and sent, the io:chunk payloads emitted so *)
(* far.  data is the list of 32-bit floats whose bytes the payload         *)
(* carries (four bytes each).                                              *)
(***************************************************************************)

\* largest number of rasters one session sends
MaxSends == 2

\* consts.get(key, default) followed by int(...)
ConstantOr(consts, key, default) == IF key \in DOMAIN consts THEN consts[key] ELSE default

\* array.array('f', raster): every value as a 32-bit float
array_f(raster) == [i \in DOMAIN raster |-> [f32 |-> raster[i]]]

\* one session, built from a contract that gives gamma and feedbackN or
\* leaves them out, and the first raster its caller builds
InitSend ==
    /\ \E consts \in {[gamma |-> 1, feedbackN |-> 2], [gamma |-> 2, feedbackN |-> 2],
                      [gamma |-> 2, feedbackN |-> 1], [gamma |-> 2], [feedbackN |-> 2]} :
          sess = [gamma |-> ConstantOr(consts, "gamma", 64),
                  feedback_n |-> ConstantOr(consts, "feedbackN", 128),
                  sent |-> <<>>]
    /\ \E d \in {<<>>, <<10>>, <<-5, 1>>}, N \in 1..MaxN, sd \in Seeds :
          fb = FeedbackCall(d, N, <<>>, 0, sd)
    /\ grng = [seed |-> 0, pos |-> 0]
    /\ pc = "call"
    /\ nm = <<>>
    /\ NoDecoder
    /\ NoTransport

\* session.send_feedback_raster(input_id, raster, cycle) with the raster that
\* build_feedback_raster just returned; now is what time.time() returns, later
\* at every call
SendFeedbackRaster ==
    /\ pc = "return"
    /\ Len(sess.sent) < MaxSends
    /\ \E cycle \in 0..1, now \in {Len(sess.sent) + 1} :
          LET arr == array_f(fb.raster)
              meta == [T |-> sess.gamma, N |-> sess.feedback_n, cycle |-> cycle]
              payload == [inputId |-> "fb", kind |-> "Feedback", seq |-> now * 1000,
                          t |-> now, format |-> "raster_f32", meta |-> meta, data |-> arr]
          IN  sess' = [sess EXCEPT !.sent = Append(@, payload)]
    /\ pc' = "idle"
    /\ UNCHANGED <<rows, mapping, out_cmds, by_t, mp, seen, stream, bits, entry, value, delta,
                   fb, nm, grng, abc, ins, rl, fs>>

NextSend == BuildFeedbackRaster \/ SendFeedbackRaster \/ NextRasterCall

SpecSend == InitSend /\ [][NextSend]_vars

-----------------------------------------------------------------------------
(* Claims about the feedback chunk *)

\* C30: for every feedback raster sent with send_feedback_raster, whatever
\* the deviations length and the population size it was built with, the
\* metadata describes the data: T * N is the number of 32-bit floats of the
\* chunk
C30_MetaDescribesData ==
    \A i \in DOMAIN sess.sent :
        sess.sent[i].meta.T * sess.sent[i].meta.N = Len(sess.sent[i].data)

====
